---- MODULE Spec2Model ----
(***************************************************************************)
(* LumenNotes: the notes data engine.                                      *)
(*                                                                         *)
(* The persistent key-value store (AsyncStorage) is the state; the         *)
(* operations of NotesService and BackupService are asynchronous tasks     *)
(* that suspend at every storage call, so each storage call is one step    *)
(* of the task that makes it.  Strings are sequences of one-character      *)
(* strings; timestamps are integers (milliseconds); an optional value is   *)
(* the empty sequence (undefined) or a one-element sequence.  The state   *)
(* of the NotesProvider reducer (the in-memory notes and the view derived  *)
(* from them) is kept beside the store.                                    *)
(***************************************************************************)
EXTENDS Integers, Sequences, FiniteSets, TLC

(* ------------------------------ bounds -------------------------------- *)

\* the clock (Date.now()) runs over 0..MaxClock
MaxClock == 1
\* Math.random() suffixes are drawn from 1..MaxRand
MaxRand == 2
\* the model grows neither the backup index nor the set of backup records
\* beyond this many entries
MaxIndex == 3
\* the longest stored collection a query runs on
MaxLen == 3

(* ------------------------- program constants -------------------------- *)

\* APP_CONFIG.MAX_NOTES (10000 in the source, scaled so that a full
\* collection is reachable)
MAX_NOTES == 2
\* APP_CONFIG.MAX_BACKUP_FILES (5 in the source, scaled so that retention
\* cleanup is reachable)
MAX_BACKUP_FILES == 2
\* APP_CONFIG.AUTO_BACKUP_INTERVAL (24 hours in the source, scaled to one
\* tick of the clock)
AUTO_BACKUP_INTERVAL == 1
MAX_TITLE_LENGTH == 200
MAX_NOTE_LENGTH == 100000
MAX_TAGS_PER_NOTE == 10
\* VALIDATION.TAG.MAX_LENGTH, VALIDATION.CATEGORY.MAX_LENGTH
TAG_MAX_LENGTH == 50
CATEGORY_MAX_LENGTH == 50

\* ERROR_MESSAGES and the literal error strings of the services
TITLE_REQUIRED == "Note title is required"
TITLE_TOO_LONG == "Title exceeds 200 characters"
NOTE_TOO_LONG == "Note content exceeds 100000 characters"
MAX_TAGS_REACHED == "Maximum of 10 tags per note"
MAX_NOTES_REACHED == "Maximum of 10000 notes allowed"
NOTE_NOT_FOUND == "Note not found"
INVALID_COLOR == "Invalid color format"
BACKUP_NOT_FOUND == "Backup not found"
INVALID_BACKUP == "Invalid backup format"
STORAGE_FAILED == "storage error"

(* ------------------------------ strings ------------------------------- *)

None == <<>>
Some(v) == <<v>>

Str(n, c) == [i \in 1..n |-> c]

IsSpace(c) == c = " "

\* String.prototype.toLowerCase, on the alphabet of the model
LowerChar(c) ==
  CASE c = "A" -> "a"
    [] c = "B" -> "b"
    [] c = "C" -> "c"
    [] OTHER -> c

ToLowerCase(s) == [i \in 1..Len(s) |-> LowerChar(s[i])]

RECURSIVE TrimStart(_)
TrimStart(s) ==
  IF s # <<>> /\ IsSpace(Head(s)) THEN TrimStart(Tail(s)) ELSE s

RECURSIVE TrimEnd(_)
TrimEnd(s) ==
  IF s # <<>> /\ IsSpace(s[Len(s)]) THEN TrimEnd(SubSeq(s, 1, Len(s) - 1)) ELSE s

\* String.prototype.trim
Trim(s) == TrimEnd(TrimStart(s))

\* String.prototype.includes
Includes(s, t) ==
  \E i \in 0..(Len(s) - Len(t)) : SubSeq(s, i + 1, i + Len(t)) = t

Range(s) == {s[i] : i \in 1..Len(s)}

HexDigits == {"0", "1", "2", "3", "4", "5", "6", "7", "8", "9",
              "a", "b", "c", "d", "e", "f", "A", "B", "C", "D", "E", "F"}

\* /^[a-zA-Z0-9\-_\s]+$/ on the alphabet of the model
AllowedChars == HexDigits \cup {"g", "t", "w", "x", "-", "_", " "}

\* VALIDATION.TAG.ALLOWED_CHARS / VALIDATION.CATEGORY.ALLOWED_CHARS .test
AllowedCharsTest(s) == s # <<>> /\ Range(s) \subseteq AllowedChars

\* isValidColor: /^#([A-Fa-f0-9]{6}|[A-Fa-f0-9]{3})$/
isValidColor(color) ==
  /\ Len(color) \in {4, 7}
  /\ color[1] = "#"
  /\ \A i \in 2..Len(color) : color[i] \in HexDigits

(* ------------------------- dates and notes ---------------------------- *)

\* A Date object, and the ISO-8601 string JSON.stringify turns it into
DateOf(ms) == [iso |-> FALSE, ms |-> ms]
IsoOf(ms) == [iso |-> TRUE, ms |-> ms]

\* new Date(x): x a Date or an ISO string
NewDate(x) == DateOf(x.ms)
\* Date.prototype.getTime
GetTime(d) == d.ms
\* JSON.stringify of a Date-valued (or already string-valued) field
DateToJSON(x) == IsoOf(x.ms)

\* JSON.stringify of a note: dates become ISO strings (undefined fields
\* are None before and after)
NoteToJSON(n) ==
  [n EXCEPT !.createdAt = DateToJSON(@), !.updatedAt = DateToJSON(@)]

NotesToJSON(ns) == [i \in 1..Len(ns) |-> NoteToJSON(ns[i])]

\* loadNotes: the map over the parsed array
ProcessedNote(j) ==
  [j EXCEPT !.createdAt = NewDate(@),
            !.updatedAt = NewDate(@),
            !.isFavorite = IF @ = None THEN Some(FALSE) ELSE @]

ProcessedNotes(js) == [i \in 1..Len(js) |-> ProcessedNote(js[i])]

\* Array.prototype.findIndex(note => note.id === id); 0 when there is none
RECURSIVE FindFrom(_, _, _)
FindFrom(ns, id, i) ==
  IF i > Len(ns) THEN 0
  ELSE IF ns[i].id = id THEN i
  ELSE FindFrom(ns, id, i + 1)

FindIndex(ns, id) == FindFrom(ns, id, 1)

Has(input, f) == f \in DOMAIN input

(* ----------------------------- validation ----------------------------- *)

\* validateNoteInput with the title tested untrimmed
validateNoteInput_NoTrim(input) ==
  IF Has(input, "title") /\ input.title = <<>> THEN TITLE_REQUIRED
  ELSE IF Has(input, "title") /\ Len(input.title) > MAX_TITLE_LENGTH THEN TITLE_TOO_LONG
  ELSE IF Has(input, "content") /\ Len(input.content) > MAX_NOTE_LENGTH THEN NOTE_TOO_LONG
  ELSE IF Has(input, "tags") /\ Len(input.tags) > MAX_TAGS_PER_NOTE THEN MAX_TAGS_REACHED
  ELSE ""

\* validateNoteInput of notes-service: "" is null (no error)
validateNoteInput(input) ==
  IF Has(input, "title") /\ Trim(input.title) = <<>> THEN TITLE_REQUIRED
  ELSE IF Has(input, "title") /\ Len(input.title) > MAX_TITLE_LENGTH THEN TITLE_TOO_LONG
  ELSE IF Has(input, "content") /\ Len(input.content) > MAX_NOTE_LENGTH THEN NOTE_TOO_LONG
  ELSE IF Has(input, "tags") /\ Len(input.tags) > MAX_TAGS_PER_NOTE THEN MAX_TAGS_REACHED
  ELSE ""

\* the error of one tag in validateNote's forEach (<<>> when it is valid)
TagErrors(tag) ==
  IF tag = <<>> \/ Trim(tag) = <<>> THEN <<"Tag cannot be empty">>
  ELSE IF Len(tag) > TAG_MAX_LENGTH THEN <<"Tag exceeds maximum length">>
  ELSE IF Len(tag) < 1 THEN <<"Tag must be at least 1 character long">>
  ELSE IF ~AllowedCharsTest(tag) THEN <<"Tag contains invalid characters">>
  ELSE <<>>

RECURSIVE AllTagErrors(_)
AllTagErrors(tags) ==
  IF tags = <<>> THEN <<>> ELSE TagErrors(Head(tags)) \o AllTagErrors(Tail(tags))

\* validateNote of utils/validation: the list of errors
validateNoteErrors(input) ==
  LET titleErrs ==
        IF ~Has(input, "title") THEN <<>>
        ELSE IF input.title = <<>> \/ Trim(input.title) = <<>> THEN <<TITLE_REQUIRED>>
        ELSE IF Len(input.title) > MAX_TITLE_LENGTH THEN <<TITLE_TOO_LONG>>
        ELSE IF Len(input.title) < 1 THEN <<"Title must be at least 1 character long">>
        ELSE <<>>
      contentErrs ==
        IF Has(input, "content") /\ Len(input.content) > MAX_NOTE_LENGTH
        THEN <<NOTE_TOO_LONG>> ELSE <<>>
      categoryErrs ==
        IF ~(Has(input, "category") /\ input.category # <<>>) THEN <<>>
        ELSE IF Len(input.category) > CATEGORY_MAX_LENGTH
          THEN <<"Category name cannot exceed 50 characters">>
        ELSE IF Len(input.category) < 1
          THEN <<"Category name must be at least 1 character long">>
        ELSE IF ~AllowedCharsTest(input.category)
          THEN <<"Category name contains invalid characters">>
        ELSE <<>>
      tagErrs ==
        IF ~Has(input, "tags") THEN <<>>
        ELSE (IF Len(input.tags) > MAX_TAGS_PER_NOTE THEN <<MAX_TAGS_REACHED>> ELSE <<>>)
             \o AllTagErrors(input.tags)
      colorErrs ==
        IF Has(input, "color") /\ input.color # <<>> /\ ~isValidColor(input.color)
        THEN <<INVALID_COLOR>> ELSE <<>>
  IN titleErrs \o contentErrs \o categoryErrs \o tagErrs \o colorErrs

\* validateNote(input).isValid
validateNote(input) == validateNoteErrors(input) = <<>>

(* ------------------------------- state -------------------------------- *)

VARIABLES
  now,         \* Date.now()
  notes,       \* value at STORAGE_KEYS.NOTES (JSON; absent reads as [])
  notesIndex,  \* value at STORAGE_KEYS.NOTES_INDEX
  settings,    \* value at STORAGE_KEYS.SETTINGS: -1 absent, 0 is {}
  backups,     \* backup id -> value at BACKUP_DATA_<id>
  backupList,  \* value at BACKUP_DATA_list (absent reads as [])
  lastBackup,  \* value at STORAGE_KEYS.LAST_BACKUP (None when absent)
  task,        \* per task: the operation in flight and its locals
  prev,        \* the operation that completed before the current one
  state        \* the NotesState of NotesProvider's useReducer

vars == <<now, notes, notesIndex, settings, backups, backupList, lastBackup,
          task, prev, state>>

store == <<notes, notesIndex, settings, backups, backupList, lastBackup>>

Tasks == {1, 2}

EmptyInput == [id |-> None]

\* pre, preIndex, failed, reads, writes, base, rivals and made only record
\* what happened: the notes and the search index stored when the operation
\* was called, the steps whose storage call failed, the storage reads and
\* writes it made, the notes value its loadNotes read, the tasks that had loaded
\* and not yet saved when it saved, and the id and the stored notes of the
\* last successful createBackup while no createBackup, importBackup or
\* deleteBackup has been called since; out is the list a query returned,
\* arg the array it handed to filterNotes as that array is after the call,
\* first the list the same query returned when the caller ran it before,
\* and snap the whole store when importBackup or restoreBackup was called
NoTask ==
  [pc |-> "idle", op |-> "none", id |-> None, input |-> EmptyInput,
   pending |-> <<>>, note |-> None, res |-> "", pre |-> <<>>,
   preIndex |-> <<>>, failed |-> {}, reads |-> 0, writes |-> 0,
   data |-> None, meta |-> None, list |-> <<>>, todo |-> <<>>,
   base |-> <<>>, rivals |-> {}, made |-> None,
   out |-> <<>>, arg |-> <<>>, first |-> None, snap |-> None]

\* initialState of the notes provider; `reload` tells that the effect on
\* loadNotes is due: on mount, and after a render that gave loadNotes a
\* new identity
initialState ==
  [notes |-> <<>>, loading |-> FALSE, error |-> None, searchQuery |-> <<>>,
   filteredNotes |-> <<>>, selectedCategory |-> None, selectedTags |-> <<>>,
   sortBy |-> "updatedAt", sortOrder |-> "desc", viewMode |-> "list",
   reload |-> TRUE]

NoPrev == [op |-> "none", id |-> None, res |-> "", pre |-> <<>>]

Init ==
  /\ now = 0
  /\ notes = <<>>
  /\ notesIndex = <<>>
  /\ settings = -1
  /\ backups = <<>>
  /\ backupList = <<>>
  /\ lastBackup = None
  /\ task = [t \in Tasks |-> NoTask]
  /\ prev = NoPrev
  /\ state = initialState

\* time passes
Tick ==
  /\ now < MaxClock
  /\ now' = now + 1
  /\ UNCHANGED <<store, task, prev, state>>

(* --------------------------- NotesService ----------------------------- *)

\* generateNoteId: `note_${Date.now()}_${random suffix}`
generateNoteId(ts, r) == <<ts, r>>

\* createNote stamping updatedAt with the epoch
NewNote_EpochUpdated(input, ts, r) ==
  [id |-> generateNoteId(ts, r),
   title |-> Trim(input.title),
   content |-> IF Has(input, "content") THEN input.content ELSE <<>>,
   createdAt |-> DateOf(ts),
   updatedAt |-> DateOf(0),
   isPinned |-> FALSE,
   isFavorite |-> Some(FALSE),
   category |-> IF Has(input, "category") THEN Some(input.category) ELSE None,
   tags |-> IF Has(input, "tags") THEN input.tags ELSE <<>>,
   color |-> IF Has(input, "color") THEN Some(input.color) ELSE None,
   isDeleted |-> FALSE]

\* the note createNote builds from its input
NewNote(input, ts, r) ==
  [id |-> generateNoteId(ts, r),
   title |-> Trim(input.title),
   content |-> IF Has(input, "content") THEN input.content ELSE <<>>,
   createdAt |-> DateOf(ts),
   updatedAt |-> DateOf(ts),
   isPinned |-> FALSE,
   isFavorite |-> Some(FALSE),
   category |-> IF Has(input, "category") THEN Some(input.category) ELSE None,
   tags |-> IF Has(input, "tags") THEN input.tags ELSE <<>>,
   color |-> IF Has(input, "color") THEN Some(input.color) ELSE None,
   isDeleted |-> FALSE]

OptionalFields == {"category", "color", "isFavorite"}

\* updateNote refreshing createdAt as well
UpdatedNote_Touch(existing, input, ts) ==
  [f \in DOMAIN existing \cup DOMAIN input |->
     IF f \in {"updatedAt", "createdAt"} THEN DateOf(ts)
     ELSE IF Has(input, f)
       THEN (IF f \in OptionalFields THEN Some(input[f]) ELSE input[f])
     ELSE existing[f]]

\* updateNote: {...existingNote, ...input, updatedAt: new Date()}
UpdatedNote(existing, input, ts) ==
  [f \in DOMAIN existing \cup DOMAIN input |->
     IF f = "updatedAt" THEN DateOf(ts)
     ELSE IF Has(input, f)
       THEN (IF f \in OptionalFields THEN Some(input[f]) ELSE input[f])
     ELSE existing[f]]

\* updateNotesIndex: one entry of the search index
IndexEntry(note) ==
  [id |-> note.id,
   title |-> ToLowerCase(note.title),
   content |-> ToLowerCase(note.content),
   category |-> IF note.category = None THEN <<>> ELSE ToLowerCase(note.category[1]),
   tags |-> [i \in 1..Len(note.tags) |-> ToLowerCase(note.tags[i])],
   isDeleted |-> note.isDeleted]

SearchIndex(ns) == [i \in 1..Len(ns) |-> IndexEntry(ns[i])]

\* the operations that run updateNote / createNote after their own steps
UpdateOps == {"updateNote", "deleteNote", "restoreNote", "togglePinNote",
              "toggleFavoriteNote"}
CreateOps == {"createNote", "duplicateNote"}

Callable(t) == task[t].pc \in {"idle", "done"}

\* the operations that add or remove backup records
BackupWrites == {"createBackup", "importBackup", "deleteBackup"}

\* the operations remembered, once complete, through the operation that
\* follows them
TrackedOps == {"deleteNote"}

Summary(tk) ==
  IF tk.op \in TrackedOps
  THEN [op |-> tk.op, id |-> tk.id, res |-> tk.res, pre |-> tk.pre]
  ELSE NoPrev

\* a call of `op`: the task's record when the call is made
Begin(op, id, input, pc) ==
  [NoTask EXCEPT !.pc = pc, !.op = op, !.id = id, !.input = input,
                 !.pre = notes, !.preIndex = notesIndex]

\* the record of task t about to make a storage call that succeeds or not
Did(t, ok) ==
  [task[t] EXCEPT !.failed = IF ok THEN @ ELSE @ \cup {task[t].pc}]

\* the operation returns {success: false, error: res} or {success: true}
Finish(tk, res) ==
  [tk EXCEPT !.pc = "done", !.res = res, !.pending = <<>>, !.data = None,
             !.list = <<>>, !.todo = <<>>,
             !.made = IF tk.op = "createBackup" /\ res = "ok"
                      THEN Some([id |-> tk.id, notes |-> tk.base]) ELSE @]

\* the entry of createNote / updateNote: validation, then the first await
Enter(tk, input) ==
  IF validateNoteInput(input) # ""
  THEN Finish([tk EXCEPT !.input = input], validateNoteInput(input))
  ELSE [tk EXCEPT !.pc = "load", !.input = input]

\* (rivals names operations in flight: a task that starts a new one leaves)
Call(t, tk) ==
  /\ Callable(t)
  /\ task' = [u \in Tasks |->
       IF u = t
       THEN [tk EXCEPT !.made = IF tk.op \in BackupWrites THEN None
                                ELSE task[t].made]
       ELSE [task[u] EXCEPT !.rivals = @ \ {t}]]
  /\ prev' = Summary(task[t])
  /\ UNCHANGED <<now, store, state>>

createNote(t, input) ==
  Call(t, Enter(Begin("createNote", None, input, "load"), input))

updateNote(t, input) ==
  Call(t, Enter(Begin("updateNote", input.id, input, "load"), input))

deleteNote(t, id) ==
  LET input == [id |-> id, isDeleted |-> TRUE]
  IN Call(t, Enter(Begin("deleteNote", id, input, "load"), input))

restoreNote(t, id) ==
  LET input == [id |-> id, isDeleted |-> FALSE]
  IN Call(t, Enter(Begin("restoreNote", id, input, "load"), input))

permanentlyDeleteNote(t, id) ==
  Call(t, Begin("permanentlyDeleteNote", id, EmptyInput, "load"))

togglePinNote(t, id) ==
  Call(t, Begin("togglePinNote", id, EmptyInput, "preload"))

toggleFavoriteNote(t, id) ==
  Call(t, Begin("toggleFavoriteNote", id, EmptyInput, "preload"))

duplicateNote(t, id) ==
  Call(t, Begin("duplicateNote", id, EmptyInput, "preload"))

Copy == <<" ", "(", "C", "o", "p", "y", ")">>

\* the input togglePinNote / toggleFavoriteNote / duplicateNote build from
\* the note they found
InnerInput(op, note) ==
  CASE op = "togglePinNote" -> [id |-> note.id, isPinned |-> ~note.isPinned]
    [] op = "toggleFavoriteNote" ->
         [id |-> note.id, isFavorite |-> ~note.isFavorite[1]]
    [] OTHER ->
         LET base == [title |-> note.title \o Copy, content |-> note.content,
                      tags |-> note.tags]
             withCat == IF note.category = None THEN base
                        ELSE [f \in DOMAIN base \cup {"category"} |->
                                IF f = "category" THEN note.category[1] ELSE base[f]]
         IN IF note.color = None THEN withCat
            ELSE [f \in DOMAIN withCat \cup {"color"} |->
                    IF f = "color" THEN note.color[1] ELSE withCat[f]]

\* the first loadNotes of togglePinNote, toggleFavoriteNote, duplicateNote
\* and the find that follows it
StepPreload(t, ok) ==
  LET tk == [Did(t, ok) EXCEPT !.reads = @ + 1]
      existing == ProcessedNotes(notes)
      i == FindIndex(existing, tk.id)
  IN /\ task[t].pc = "preload"
     /\ task' = [task EXCEPT ![t] =
          IF ~ok THEN Finish(tk, STORAGE_FAILED)
          ELSE IF i = 0 THEN Finish(tk, NOTE_NOT_FOUND)
          ELSE Enter(tk, InnerInput(tk.op, existing[i]))]
     /\ UNCHANGED <<now, store, prev, state>>

\* createNote counting only the notes that are not soft-deleted
CreateLoaded_ActiveOnly(tk, existing, r) ==
  IF Len(SelectSeq(existing, LAMBDA n : ~n.isDeleted)) >= MAX_NOTES
  THEN Finish(tk, MAX_NOTES_REACHED)
  ELSE LET newNote == NewNote(tk.input, now, r)
       IN [tk EXCEPT !.pc = "save", !.note = Some(newNote),
                     !.pending = <<newNote>> \o existing]

\* what createNote does with the notes it loaded
CreateLoaded(tk, existing, r) ==
  IF Len(existing) >= MAX_NOTES THEN Finish(tk, MAX_NOTES_REACHED)
  ELSE LET newNote == NewNote(tk.input, now, r)
       IN [tk EXCEPT !.pc = "save", !.note = Some(newNote),
                     !.pending = <<newNote>> \o existing]

\* updateNote adding the note when no stored note has the id
UpdateLoaded_Upsert(tk, existing) ==
  LET i == FindIndex(existing, tk.input.id)
      updatedNote == UpdatedNote(IF i = 0 THEN NewNote([title |-> <<"n">>], now, 1)
                                 ELSE existing[i], tk.input, now)
  IN [tk EXCEPT !.pc = "save", !.note = Some(updatedNote),
                !.pending = IF i = 0 THEN <<updatedNote>> \o existing
                            ELSE [existing EXCEPT ![i] = updatedNote]]

\* updateNote moving the note it updated to the front of the collection
UpdateLoaded_MoveFront(tk, existing) ==
  LET i == FindIndex(existing, tk.input.id)
  IN IF i = 0 THEN Finish(tk, NOTE_NOT_FOUND)
     ELSE LET updatedNote == UpdatedNote(existing[i], tk.input, now)
          IN [tk EXCEPT !.pc = "save", !.note = Some(updatedNote),
                        !.pending = <<updatedNote>> \o SubSeq(existing, 1, i - 1)
                                      \o SubSeq(existing, i + 1, Len(existing))]

\* what updateNote does with the notes it loaded
UpdateLoaded(tk, existing) ==
  LET i == FindIndex(existing, tk.input.id)
  IN IF i = 0 THEN Finish(tk, NOTE_NOT_FOUND)
     ELSE LET updatedNote == UpdatedNote(existing[i], tk.input, now)
          IN [tk EXCEPT !.pc = "save", !.note = Some(updatedNote),
                        !.pending = [existing EXCEPT ![i] = updatedNote]]

\* what permanentlyDeleteNote does with the notes it loaded
PurgeLoaded(tk, existing) ==
  [tk EXCEPT !.pc = "save",
             !.pending = SelectSeq(existing, LAMBDA n : n.id # tk.id)]

\* loadNotes inside createNote, updateNote and permanentlyDeleteNote, and
\* the code up to the call of saveNotes
StepLoad(t, ok, r) ==
  LET tk == [Did(t, ok) EXCEPT !.reads = @ + 1, !.base = notes]
      existing == ProcessedNotes(notes)
  IN /\ task[t].pc = "load"
     /\ task' = [task EXCEPT ![t] =
          IF ~ok THEN Finish(tk, STORAGE_FAILED)
          ELSE IF tk.op \in CreateOps THEN CreateLoaded(tk, existing, r)
          ELSE IF tk.op \in UpdateOps THEN UpdateLoaded(tk, existing)
          ELSE PurgeLoaded(tk, existing)]
     /\ UNCHANGED <<now, store, prev, state>>

\* saveNotes going on to the index after a failed write of the notes
StepSave_Unchecked(t, ok) ==
  LET tk == [Did(t, ok) EXCEPT
               !.writes = @ + 1,
               !.rivals = {u \in Tasks \ {t} : task[u].pc = "save"}]
  IN /\ task[t].pc = "save"
     /\ notes' = IF ok THEN NotesToJSON(tk.pending) ELSE notes
     /\ task' = [task EXCEPT ![t] = [tk EXCEPT !.pc = "index"]]
     /\ UNCHANGED <<now, notesIndex, settings, backups, backupList, lastBackup, prev, state>>

\* saveNotes refusing to replace a collection other than the one loaded
StepSave_Checked(t, ok) ==
  LET tk == [Did(t, ok) EXCEPT
               !.writes = @ + 1,
               !.rivals = {u \in Tasks \ {t} : task[u].pc = "save"}]
      fresh == ok /\ notes = tk.base
  IN /\ task[t].pc = "save"
     /\ notes' = IF fresh THEN NotesToJSON(tk.pending) ELSE notes
     /\ task' = [task EXCEPT ![t] =
          IF fresh THEN [tk EXCEPT !.pc = "index"] ELSE Finish(tk, STORAGE_FAILED)]
     /\ UNCHANGED <<now, notesIndex, settings, backups, backupList, lastBackup, prev, state>>

\* saveNotes: StorageService.setItem(STORAGE_KEYS.NOTES, notes)
StepSave(t, ok) ==
  LET tk == [Did(t, ok) EXCEPT
               !.writes = @ + 1,
               !.rivals = {u \in Tasks \ {t} : task[u].pc = "save"}]
  IN /\ task[t].pc = "save"
     /\ notes' = IF ok THEN NotesToJSON(tk.pending) ELSE notes
     /\ task' = [task EXCEPT ![t] =
          IF ok THEN [tk EXCEPT !.pc = "index"] ELSE Finish(tk, STORAGE_FAILED)]
     /\ UNCHANGED <<now, notesIndex, settings, backups, backupList, lastBackup, prev, state>>

\* saveNotes failing when the write of the search index fails
StepIndex_Checked(t, ok) ==
  LET tk == [Did(t, ok) EXCEPT !.writes = @ + 1]
  IN /\ task[t].pc = "index"
     /\ notesIndex' = IF ok THEN SearchIndex(tk.pending) ELSE notesIndex
     /\ task' = [task EXCEPT ![t] =
          IF ~ok THEN Finish(tk, STORAGE_FAILED)
          ELSE IF tk.op = "restoreBackup" THEN [tk EXCEPT !.pc = "rs_settings"]
          ELSE Finish(tk, "ok")]
     /\ UNCHANGED <<now, notes, settings, backups, backupList, lastBackup, prev, state>>

\* updateNotesIndex: storage.set(STORAGE_KEYS.NOTES_INDEX, searchIndex), its
\* result ignored; then saveNotes and its caller return
StepIndex(t, ok) ==
  LET tk == [Did(t, ok) EXCEPT !.writes = @ + 1]
  IN /\ task[t].pc = "index"
     /\ notesIndex' = IF ok THEN SearchIndex(tk.pending) ELSE notesIndex
     /\ task' = [task EXCEPT ![t] =
          IF tk.op = "restoreBackup" THEN [tk EXCEPT !.pc = "rs_settings"]
          ELSE Finish(tk, "ok")]
     /\ UNCHANGED <<now, notes, settings, backups, backupList, lastBackup, prev, state>>

(* ------------------------------ queries ------------------------------- *)

\* the characters of the model in UTF-16 code unit order
Alphabet ==
  <<" ", "!", "#", "(", ")", "-", "0", "1", "2", "3", "4", "5", "6", "7",
    "8", "9", "<", ">", "A", "B", "C", "D", "E", "F", "_", "a", "b", "c",
    "d", "e", "f", "g", "o", "p", "t", "w", "x", "y">>

CharCode(c) == CHOOSE i \in 1..Len(Alphabet) : Alphabet[i] = c

\* a < b on strings
RECURSIVE StrLess(_, _)
StrLess(a, b) ==
  IF b = <<>> THEN FALSE
  ELSE IF a = <<>> THEN TRUE
  ELSE IF Head(a) = Head(b) THEN StrLess(Tail(a), Tail(b))
  ELSE CharCode(Head(a)) < CharCode(Head(b))

\* the sort comparing titles as they are written
SortLess_CaseSensitive(a, b, sortField) ==
  IF sortField = "title" THEN StrLess(a.title, b.title)
  ELSE GetTime(NewDate(a[sortField])) < GetTime(NewDate(b[sortField]))

\* aValue < bValue after filterNotes' conversions of the sort field
SortLess(a, b, sortField) ==
  IF sortField = "title" THEN StrLess(ToLowerCase(a.title), ToLowerCase(b.title))
  ELSE GetTime(NewDate(a[sortField])) < GetTime(NewDate(b[sortField]))

\* the comparator filterNotes hands to Array.prototype.sort
SortCompare(a, b, sortField, sortOrder) ==
  IF sortOrder = "asc"
  THEN (IF SortLess(a, b, sortField) THEN -1
        ELSE IF SortLess(b, a, sortField) THEN 1 ELSE 0)
  ELSE (IF SortLess(b, a, sortField) THEN -1
        ELSE IF SortLess(a, b, sortField) THEN 1 ELSE 0)

\* Array.prototype.sort (stable) with that comparator
RECURSIVE SortNotes(_, _, _)
SortNotes(s, sortField, sortOrder) ==
  IF s = <<>> THEN <<>>
  ELSE LET sorted == SortNotes(SubSeq(s, 1, Len(s) - 1), sortField, sortOrder)
           x == s[Len(s)]
           k == Cardinality({i \in 1..Len(sorted) :
                  SortCompare(sorted[i], x, sortField, sortOrder) <= 0})
       IN SubSeq(sorted, 1, k) \o <<x>> \o SubSeq(sorted, k + 1, Len(sorted))

\* NotesQueryOptions; an unspecified field is None, and for the fields
\* filterNotes only tests for truthiness <<>> or FALSE
DefaultOptions ==
  [includeDeleted |-> FALSE, isPinned |-> None, category |-> <<>>,
   tags |-> <<>>, searchTerm |-> <<>>, sortBy |-> None, sortOrder |-> None,
   offset |-> None, limit |-> None]

\* `x || 0` of an optional number
OrZero(x) == IF x = None THEN 0 ELSE x[1]

\* the searchTerm predicate leaving the category out
MatchesTerm_NoCategory(note, searchTerm) ==
  \/ Includes(ToLowerCase(note.title), searchTerm)
  \/ Includes(ToLowerCase(note.content), searchTerm)
  \/ \E i \in 1..Len(note.tags) : Includes(ToLowerCase(note.tags[i]), searchTerm)

\* the searchTerm predicate of filterNotes
MatchesTerm(note, searchTerm) ==
  \/ Includes(ToLowerCase(note.title), searchTerm)
  \/ Includes(ToLowerCase(note.content), searchTerm)
  \/ \E i \in 1..Len(note.tags) : Includes(ToLowerCase(note.tags[i]), searchTerm)
  \/ (note.category # None /\ note.category[1] # <<>>
      /\ Includes(ToLowerCase(note.category[1]), searchTerm))

\* Array.prototype.slice(start, end) with 0-based start and exclusive end
Slice(s, start, end) ==
  SubSeq(s, start + 1, IF end > Len(s) THEN Len(s) ELSE end)

filterNotes(ns, options) ==
  LET f1 == IF options.includeDeleted THEN ns
            ELSE SelectSeq(ns, LAMBDA n : ~n.isDeleted)
      f2 == IF options.isPinned = None THEN f1
            ELSE SelectSeq(f1, LAMBDA n : n.isPinned = options.isPinned[1])
      f3 == IF options.category = <<>> THEN f2
            ELSE SelectSeq(f2, LAMBDA n : n.category = Some(options.category))
      f4 == IF options.tags = <<>> THEN f3
            ELSE SelectSeq(f3, LAMBDA n :
                   \E i \in 1..Len(options.tags) : options.tags[i] \in Range(n.tags))
      f5 == IF options.searchTerm = <<>> THEN f4
            ELSE SelectSeq(f4, LAMBDA n :
                   MatchesTerm(n, ToLowerCase(options.searchTerm)))
      sortField == IF options.sortBy = None THEN "updatedAt" ELSE options.sortBy[1]
      sortOrder == IF options.sortOrder = None THEN "desc" ELSE options.sortOrder[1]
      sorted == SortNotes(f5, sortField, sortOrder)
      start == OrZero(options.offset)
  IN IF OrZero(options.offset) # 0 \/ OrZero(options.limit) # 0
     THEN Slice(sorted, start,
                IF OrZero(options.limit) # 0 THEN start + options.limit[1]
                ELSE Len(sorted))
     ELSE sorted

\* getNotes(options) when its loadNotes succeeds
getNotes(options) == filterNotes(ProcessedNotes(notes), options)

\* getNoteById(id) when its loadNotes succeeds: None is null
getNoteById(id) ==
  LET ns == ProcessedNotes(notes)
      i == FindIndex(ns, id)
  IN IF i = 0 THEN None ELSE Some(ns[i])

\* getCategories listing the categories of soft-deleted notes too
getCategories_All ==
  {n.category[1] : n \in {m \in Range(ProcessedNotes(notes)) :
      m.category # None /\ m.category[1] # <<>>}}

\* getCategories when its loadNotes succeeds: the set the sorted array holds
getCategories ==
  {n.category[1] : n \in {m \in Range(ProcessedNotes(notes)) :
      m.category # None /\ m.category[1] # <<>> /\ ~m.isDeleted}}

\* getTags when its loadNotes succeeds: the set the sorted array holds
getTags ==
  UNION {Range(n.tags) : n \in {m \in Range(ProcessedNotes(notes)) : ~m.isDeleted}}

\* getNotes(options) called by task t
getNotesCall(t, options) ==
  Call(t, Begin("getNotes", None, options, "query"))

\* the caller runs the query it has just run once more
getNotesAgain(t) ==
  /\ task[t].op = "getNotes"
  /\ task[t].pc = "done"
  /\ task[t].res = "ok"
  /\ task[t].first = None
  /\ Call(t, [Begin("getNotes", None, task[t].input, "query")
                EXCEPT !.first = Some(task[t].out)])

\* no filter of filterNotes replaces the array by a new one
NoFilter(options) ==
  /\ options.includeDeleted
  /\ options.isPinned = None
  /\ options.category = <<>>
  /\ options.tags = <<>>
  /\ options.searchTerm = <<>>

\* filterNotes without the copy of its first line: the sort reorders the
\* caller's array when no filter has replaced it
ArgAfter_InPlace(ns, options) ==
  IF NoFilter(options)
  THEN SortNotes(ns,
         IF options.sortBy = None THEN "updatedAt" ELSE options.sortBy[1],
         IF options.sortOrder = None THEN "desc" ELSE options.sortOrder[1])
  ELSE ns

\* the array handed to filterNotes, after the call: filterNotes copies it
\* first and filters, sorts and slices the copy
ArgAfter(ns, options) == ns

\* getNotes: loadNotes, then filterNotes on what it loaded
StepQuery(t, ok) ==
  LET tk == [Did(t, ok) EXCEPT !.reads = @ + 1, !.base = notes]
      allNotes == ProcessedNotes(notes)
  IN /\ task[t].pc = "query"
     /\ task' = [task EXCEPT ![t] =
          IF ~ok THEN Finish(tk, STORAGE_FAILED)
          ELSE Finish([tk EXCEPT !.out = filterNotes(allNotes, tk.input),
                                 !.arg = ArgAfter(allNotes, tk.input)], "ok")]
     /\ UNCHANGED <<now, store, prev, state>>

(* ------------------------------ search -------------------------------- *)

\* String.prototype.indexOf(t, from): 0-based, -1 when t does not occur
IndexOf(s, t, from) ==
  LET at == {i \in from..(Len(s) - Len(t)) : SubSeq(s, i + 1, i + Len(t)) = t}
  IN IF at = {} THEN -1 ELSE CHOOSE i \in at : \A j \in at : i <= j

\* calculateScore looking for the term as typed in the lower-cased title
calculateScore_Verbatim(note, searchTerm) ==
  LET term == ToLowerCase(searchTerm)
      titleLower == ToLowerCase(note.title)
      tags == {i \in 1..Len(note.tags) : Includes(ToLowerCase(note.tags[i]), term)}
  IN (IF Includes(titleLower, searchTerm)
      THEN (IF IndexOf(titleLower, searchTerm, 0) = 0 THEN 100 ELSE 50) ELSE 0)
     + (IF Includes(ToLowerCase(note.content), term) THEN 25 ELSE 0)
     + (IF note.category # None /\ note.category[1] # <<>>
           /\ Includes(ToLowerCase(note.category[1]), term) THEN 30 ELSE 0)
     + 35 * Cardinality(tags)
     + (IF note.isPinned THEN 10 ELSE 0)
     - (IF note.isDeleted THEN 50 ELSE 0)

calculateScore(note, searchTerm) ==
  LET term == ToLowerCase(searchTerm)
      titleLower == ToLowerCase(note.title)
      tags == {i \in 1..Len(note.tags) : Includes(ToLowerCase(note.tags[i]), term)}
  IN (IF Includes(titleLower, term)
      THEN (IF IndexOf(titleLower, term, 0) = 0 THEN 100 ELSE 50) ELSE 0)
     + (IF Includes(ToLowerCase(note.content), term) THEN 25 ELSE 0)
     + (IF note.category # None /\ note.category[1] # <<>>
           /\ Includes(ToLowerCase(note.category[1]), term) THEN 30 ELSE 0)
     + 35 * Cardinality(tags)
     + (IF note.isPinned THEN 10 ELSE 0)
     - (IF note.isDeleted THEN 50 ELSE 0)

\* findMatches: its loop from startIndex on, startIndex being 0 when it is
\* called (searchTerm is not empty)
RECURSIVE findMatches(_, _, _)
findMatches(text, searchTerm, startIndex) ==
  LET termLower == ToLowerCase(searchTerm)
      index == IndexOf(ToLowerCase(text), termLower, startIndex)
  IN IF startIndex >= Len(text) \/ index = -1 THEN <<>>
     ELSE <<[start |-> index, end |-> index + Len(termLower),
             text |-> SubSeq(text, index + 1, index + Len(termLower))]>>
          \o findMatches(text, searchTerm, index + Len(termLower))

\* the highlights searchNotes collects for a note: title, content,
\* category, then the tags
Highlights(note, searchTerm) ==
  LET field(name, text) ==
        IF findMatches(text, searchTerm, 0) = <<>> THEN <<>>
        ELSE <<[field |-> name, matches |-> findMatches(text, searchTerm, 0)]>>
      RECURSIVE tagsFrom(_)
      tagsFrom(i) ==
        IF i > Len(note.tags) THEN <<>>
        ELSE field(<<"tags", i - 1>>, note.tags[i]) \o tagsFrom(i + 1)
  IN field("title", note.title) \o field("content", note.content)
     \o (IF note.category # None /\ note.category[1] # <<>>
         THEN field("category", note.category[1]) ELSE <<>>)
     \o tagsFrom(1)

\* the results sorted by (a, b) => a.score - b.score
RECURSIVE SortResults_Ascending(_)
SortResults_Ascending(s) ==
  IF s = <<>> THEN <<>>
  ELSE LET sorted == SortResults_Ascending(SubSeq(s, 1, Len(s) - 1))
           x == s[Len(s)]
           k == Cardinality({i \in 1..Len(sorted) : sorted[i].score - x.score <= 0})
       IN SubSeq(sorted, 1, k) \o <<x>> \o SubSeq(sorted, k + 1, Len(sorted))

\* results.sort((a, b) => b.score - a.score), stable
RECURSIVE SortResults(_)
SortResults(s) ==
  IF s = <<>> THEN <<>>
  ELSE LET sorted == SortResults(SubSeq(s, 1, Len(s) - 1))
           x == s[Len(s)]
           k == Cardinality({i \in 1..Len(sorted) : x.score - sorted[i].score <= 0})
       IN SubSeq(sorted, 1, k) \o <<x>> \o SubSeq(sorted, k + 1, Len(sorted))

\* searchNotes(notes, searchTerm): the list of SearchResult
searchNotes(ns, searchTerm) ==
  IF Trim(searchTerm) = <<>>
  THEN [i \in 1..Len(ns) |-> [item |-> ns[i], score |-> 0, highlights |-> <<>>]]
  ELSE SortResults(
         [i \in 1..Len(SelectSeq(ns, LAMBDA n : calculateScore(n, searchTerm) > 0)) |->
            LET n == SelectSeq(ns, LAMBDA m : calculateScore(m, searchTerm) > 0)[i]
            IN [item |-> n, score |-> calculateScore(n, searchTerm),
                highlights |-> Highlights(n, searchTerm)]])

\* task t runs searchNotes on the stored collection as loadNotes gives it:
\* the function makes no storage call and returns at once
searchNotesCall(t, searchTerm) ==
  Call(t, [Begin("searchNotes", None, [searchTerm |-> searchTerm], "done")
             EXCEPT !.res = "ok",
                    !.arg = ProcessedNotes(notes),
                    !.out = searchNotes(ProcessedNotes(notes), searchTerm)])

(* --------------------------- BackupService ---------------------------- *)

\* `backup_${timestamp.getTime()}_${random suffix}` and the imported form
BackupId(prefix, ts, r) == <<prefix, ts, r>>

HasBackup(id) == id \in DOMAIN backups

\* the store after setItem(`${BACKUP_DATA}_${id}`, data)
PutBackup(id, data) ==
  [k \in DOMAIN backups \cup {id} |-> IF k = id THEN data ELSE backups[k]]

\* the store after removeItem(`${BACKUP_DATA}_${id}`)
DropBackup(id) == [k \in DOMAIN backups \ {id} |-> backups[k]]

\* backups.sort((a, b) => time(b.timestamp) - time(a.timestamp)), stable
RECURSIVE SortBackups(_)
SortBackups(s) ==
  IF s = <<>> THEN <<>>
  ELSE LET sorted == SortBackups(SubSeq(s, 1, Len(s) - 1))
           x == s[Len(s)]
           k == Cardinality({i \in 1..Len(sorted) :
                  GetTime(NewDate(x.timestamp)) - GetTime(NewDate(sorted[i].timestamp)) <= 0})
       IN SubSeq(sorted, 1, k) \o <<x>> \o SubSeq(sorted, k + 1, Len(sorted))

\* getBackupList when its getItem succeeds
getBackupList == SortBackups(backupList)

\* the BackupData createBackup builds (JSON.stringify applied)
BackupData(ns, st, ts, source) ==
  [version |-> "1.0.0",
   timestamp |-> IsoOf(ts),
   notes |-> NotesToJSON(ns),
   settings |-> IF st = -1 THEN 0 ELSE st,
   metadata |->
     [notesCount |-> Len(ns),
      categoriesCount |-> Cardinality({ns[i].category : i \in 1..Len(ns)}
                                      \ {None, Some(<<>>)}),
      tagsCount |-> Cardinality(UNION {Range(ns[i].tags) : i \in 1..Len(ns)}),
      backupSource |-> source]]

\* the BackupMetadata of a record (size, the length of the JSON text, is
\* left out: nothing reads it)
BackupMetadata(id, ts, notesCount, source) ==
  [id |-> id, timestamp |-> IsoOf(ts), notesCount |-> notesCount,
   source |-> source]

\* (the model stops making backups at MaxIndex index entries or records)
BackupCallable(t) ==
  /\ Callable(t)
  /\ Len(backupList) < MaxIndex
  /\ Cardinality(DOMAIN backups) < MaxIndex

createBackup(t, source) ==
  /\ BackupCallable(t)
  /\ Call(t, [Begin("createBackup", None, EmptyInput, "bk_load")
                EXCEPT !.input = [source |-> source], !.snap = Some(store)])

restoreBackup(t, id) ==
  Call(t, [Begin("restoreBackup", id, EmptyInput, "rs_get")
             EXCEPT !.snap = Some(store)])

deleteBackup(t, id) ==
  Call(t, [Begin("deleteBackup", id, EmptyInput, "del_remove")
             EXCEPT !.todo = <<[id |-> id]>>])

\* validateBackupData accepting a payload without settings
validateBackupData_NoSettings(p) ==
  /\ p.versionIsString
  /\ p.hasTimestamp
  /\ p.notesIsArray
  /\ p.hasMetadata
  /\ p.notesCountIsNumber

\* validateBackupData on the parsed payload
validateBackupData(p) ==
  /\ p.versionIsString
  /\ p.hasTimestamp
  /\ p.notesIsArray
  /\ p.settings # -1
  /\ p.hasMetadata
  /\ p.notesCountIsNumber

\* importBackup up to its first await: JSON.parse, the structural check,
\* the new id and timestamp
importBackup(t, p, r) ==
  /\ BackupCallable(t)
  /\ Call(t,
       LET tk == [Begin("importBackup", None, p, "bk_record")
                    EXCEPT !.snap = Some(store)]
       IN IF ~p.parses THEN Finish(tk, "Failed to import backup")
          ELSE IF ~validateBackupData(p) THEN Finish(tk, INVALID_BACKUP)
          ELSE [tk EXCEPT
                  !.id = BackupId("backup_imported", now, r),
                  !.data = Some([version |-> "1.0.0", timestamp |-> IsoOf(now),
                                 notes |-> p.notes, settings |-> p.settings,
                                 metadata |-> [notesCount |-> p.notesCount]]),
                  !.meta = Some(BackupMetadata(BackupId("backup_imported", now, r),
                                               now, Len(p.notes), "manual"))])

\* createBackup: NotesService.loadNotes()
StepBkLoad(t, ok) ==
  LET tk == [Did(t, ok) EXCEPT !.reads = @ + 1, !.base = notes]
  IN /\ task[t].pc = "bk_load"
     /\ task' = [task EXCEPT ![t] =
          IF ~ok THEN Finish(tk, STORAGE_FAILED)
          ELSE [tk EXCEPT !.pc = "bk_settings", !.pending = ProcessedNotes(notes)]]
     /\ UNCHANGED <<now, store, prev, state>>

\* createBackup: getItem(STORAGE_KEYS.SETTINGS), then the backup data, its
\* id and its metadata
StepBkSettings(t, ok, r) ==
  LET tk == [Did(t, ok) EXCEPT !.reads = @ + 1]
      id == BackupId("backup", now, r)
  IN /\ task[t].pc = "bk_settings"
     /\ task' = [task EXCEPT ![t] =
          IF ~ok THEN Finish(tk, STORAGE_FAILED)
          ELSE [tk EXCEPT
                  !.pc = "bk_record",
                  !.id = id,
                  !.data = Some(BackupData(tk.pending, settings, now, tk.input.source)),
                  !.meta = Some(BackupMetadata(id, now, Len(tk.pending),
                                               tk.input.source))]]
     /\ UNCHANGED <<now, store, prev, state>>

\* createBackup / importBackup: setItem(backupKey, backupData)
StepBkRecord(t, ok) ==
  LET tk == [Did(t, ok) EXCEPT !.writes = @ + 1]
  IN /\ task[t].pc = "bk_record"
     /\ backups' = IF ok THEN PutBackup(tk.id, tk.data[1]) ELSE backups
     /\ task' = [task EXCEPT ![t] =
          IF ok THEN [tk EXCEPT !.pc = "ul_get"] ELSE Finish(tk, STORAGE_FAILED)]
     /\ UNCHANGED <<now, notes, notesIndex, settings, backupList, lastBackup, prev, state>>

\* updateBackupList: getBackupList(), an error read as the empty list
StepListGet(t, ok) ==
  LET tk == [Did(t, ok) EXCEPT !.reads = @ + 1]
  IN /\ task[t].pc = "ul_get"
     /\ task' = [task EXCEPT ![t] =
          [tk EXCEPT !.pc = "ul_set",
                     !.list = IF ok THEN getBackupList ELSE <<>>]]
     /\ UNCHANGED <<now, store, prev, state>>

\* updateBackupList: setItem(list key, [metadata, ...existingList]), its
\* result ignored; importBackup returns after it
StepListSet(t, ok) ==
  LET tk == [Did(t, ok) EXCEPT !.writes = @ + 1]
  IN /\ task[t].pc = "ul_set"
     /\ backupList' = IF ok THEN <<tk.meta[1]>> \o tk.list ELSE backupList
     /\ task' = [task EXCEPT ![t] =
          IF tk.op = "importBackup" THEN Finish(tk, "ok")
          ELSE [tk EXCEPT !.pc = "bk_last", !.list = <<>>]]
     /\ UNCHANGED <<now, notes, notesIndex, settings, backups, lastBackup, prev, state>>

\* createBackup: storage.set(STORAGE_KEYS.LAST_BACKUP, timestamp), its
\* result ignored
StepLastBackup(t, ok) ==
  LET tk == [Did(t, ok) EXCEPT !.writes = @ + 1]
  IN /\ task[t].pc = "bk_last"
     /\ lastBackup' = IF ok THEN Some(tk.meta[1].timestamp) ELSE lastBackup
     /\ task' = [task EXCEPT ![t] = [tk EXCEPT !.pc = "cl_get"]]
     /\ UNCHANGED <<now, notes, notesIndex, settings, backups, backupList, prev, state>>

\* cleanupOldBackups deleting the newest backups beyond MAX_BACKUP_FILES
BackupsToDelete_Newest(list) == SubSeq(SortBackups(list), 1, Len(list) - MAX_BACKUP_FILES)

\* cleanupOldBackups: sortedBackups.slice(MAX_BACKUP_FILES)
BackupsToDelete(list) == SubSeq(SortBackups(list), MAX_BACKUP_FILES + 1, Len(list))

\* cleanupOldBackups tolerating one backup more than MAX_BACKUP_FILES
StepCleanupGet_Lenient(t, ok) ==
  LET tk == [Did(t, ok) EXCEPT !.reads = @ + 1]
      list == getBackupList
  IN /\ task[t].pc = "cl_get"
     /\ task' = [task EXCEPT ![t] =
          IF ~ok \/ Len(list) <= MAX_BACKUP_FILES + 1 THEN Finish(tk, "ok")
          ELSE [tk EXCEPT !.pc = "del_remove", !.todo = BackupsToDelete(list)]]
     /\ UNCHANGED <<now, store, prev, state>>

\* cleanupOldBackups: getBackupList() and the choice of the backups to
\* delete; createBackup returns when there is nothing to delete
StepCleanupGet(t, ok) ==
  LET tk == [Did(t, ok) EXCEPT !.reads = @ + 1]
      list == getBackupList
  IN /\ task[t].pc = "cl_get"
     /\ task' = [task EXCEPT ![t] =
          IF ~ok \/ Len(list) <= MAX_BACKUP_FILES THEN Finish(tk, "ok")
          ELSE [tk EXCEPT !.pc = "del_remove", !.todo = BackupsToDelete(list)]]
     /\ UNCHANGED <<now, store, prev, state>>

\* after one deleteBackup: its caller's next step.  deleteBackup called
\* directly returns `res`; cleanupOldBackups ignores it and goes on
AfterDelete(tk, res) ==
  IF tk.op = "deleteBackup" THEN Finish(tk, res)
  ELSE IF Len(tk.todo) <= 1 THEN Finish(tk, "ok")
  ELSE [tk EXCEPT !.pc = "del_remove", !.todo = Tail(@), !.list = <<>>]

\* deleteBackup: removeItem(backupKey)
StepDeleteRemove(t, ok) ==
  LET tk == [Did(t, ok) EXCEPT !.writes = @ + 1]
  IN /\ task[t].pc = "del_remove"
     /\ backups' = IF ok THEN DropBackup(Head(tk.todo).id) ELSE backups
     /\ task' = [task EXCEPT ![t] =
          IF ok THEN [tk EXCEPT !.pc = "del_get"]
          ELSE AfterDelete(tk, STORAGE_FAILED)]
     /\ UNCHANGED <<now, notes, notesIndex, settings, backupList, lastBackup, prev, state>>

\* deleteBackup: getBackupList() and the filter; a failed read skips the
\* update of the list
StepDeleteGet(t, ok) ==
  LET tk == [Did(t, ok) EXCEPT !.reads = @ + 1]
      id == Head(tk.todo).id
  IN /\ task[t].pc = "del_get"
     /\ task' = [task EXCEPT ![t] =
          IF ~ok THEN AfterDelete(tk, "ok")
          ELSE [tk EXCEPT !.pc = "del_set",
                          !.list = SelectSeq(getBackupList, LAMBDA b : b.id # id)]]
     /\ UNCHANGED <<now, store, prev, state>>

\* deleteBackup: setItem(list key, updatedList), its result ignored
StepDeleteSet(t, ok) ==
  LET tk == [Did(t, ok) EXCEPT !.writes = @ + 1]
  IN /\ task[t].pc = "del_set"
     /\ backupList' = IF ok THEN tk.list ELSE backupList
     /\ task' = [task EXCEPT ![t] = AfterDelete(tk, "ok")]
     /\ UNCHANGED <<now, notes, notesIndex, settings, backups, lastBackup, prev, state>>

\* needsAutoBackup up to its await
needsAutoBackup(t) ==
  Call(t, Begin("needsAutoBackup", None, EmptyInput, "na_get"))

\* needsAutoBackup: storage.get(STORAGE_KEYS.LAST_BACKUP), which gives null
\* when the read fails, and the comparison; the result is "true" or "false"
StepNeedsGet(t, ok) ==
  LET tk == [Did(t, ok) EXCEPT !.reads = @ + 1]
      last == IF ok THEN lastBackup ELSE None
  IN /\ task[t].pc = "na_get"
     /\ task' = [task EXCEPT ![t] =
          Finish(tk, IF last = None THEN "true"
                     ELSE IF now - GetTime(NewDate(last[1])) >= AUTO_BACKUP_INTERVAL
                          THEN "true" ELSE "false")]
     /\ UNCHANGED <<now, store, prev, state>>

\* restoreBackup saving the notes now stored instead of those of the backup
StepRestoreGet_KeepsNotes(t, ok) ==
  LET tk == [Did(t, ok) EXCEPT !.reads = @ + 1]
  IN /\ task[t].pc = "rs_get"
     /\ task' = [task EXCEPT ![t] =
          IF ~ok THEN Finish(tk, STORAGE_FAILED)
          ELSE IF ~HasBackup(tk.id) THEN Finish(tk, BACKUP_NOT_FOUND)
          ELSE [tk EXCEPT !.pc = "save", !.data = Some(backups[tk.id]),
                          !.pending = notes]]
     /\ UNCHANGED <<now, store, prev, state>>

\* restoreBackup: getItem(backupKey)
StepRestoreGet(t, ok) ==
  LET tk == [Did(t, ok) EXCEPT !.reads = @ + 1]
  IN /\ task[t].pc = "rs_get"
     /\ task' = [task EXCEPT ![t] =
          IF ~ok THEN Finish(tk, STORAGE_FAILED)
          ELSE IF ~HasBackup(tk.id) THEN Finish(tk, BACKUP_NOT_FOUND)
          ELSE [tk EXCEPT !.pc = "save", !.data = Some(backups[tk.id]),
                          !.pending = backups[tk.id].notes]]
     /\ UNCHANGED <<now, store, prev, state>>

\* restoreBackup leaving the settings as they are
StepRestoreSettings_NotesOnly(t, ok) ==
  LET tk == [Did(t, ok) EXCEPT !.writes = @ + 1]
  IN /\ task[t].pc = "rs_settings"
     /\ task' = [task EXCEPT ![t] = Finish(tk, IF ok THEN "ok" ELSE STORAGE_FAILED)]
     /\ UNCHANGED <<now, store, prev, state>>

\* restoreBackup: setItem(STORAGE_KEYS.SETTINGS, backupData.settings)
StepRestoreSettings(t, ok) ==
  LET tk == [Did(t, ok) EXCEPT !.writes = @ + 1]
  IN /\ task[t].pc = "rs_settings"
     /\ settings' = IF ok THEN tk.data[1].settings ELSE settings
     /\ task' = [task EXCEPT ![t] = Finish(tk, IF ok THEN "ok" ELSE STORAGE_FAILED)]
     /\ UNCHANGED <<now, notes, notesIndex, backups, backupList, lastBackup, prev, state>>

(* --------------------------- specifications --------------------------- *)

Rands == 1..MaxRand

\* an id no note has
AbsentId == <<MaxClock + 1, 1>>

\* the ids a caller may pass: those of the stored notes and one of no note
TargetIds == {notes[i].id : i \in 1..Len(notes)} \cup {AbsentId}

CreateInputs ==
  {[title |-> <<"a">>, content |-> <<>>],
   [title |-> <<" ">>, content |-> <<"x">>],
   [title |-> <<"b">>, content |-> <<>>, category |-> <<"w">>,
    tags |-> <<<<"t">>>>, color |-> <<"#", "g", "g", "g">>]}

\* the steps of the note operations of task t, the store working
NoteSteps(t, ok) ==
  \/ \E r \in Rands : StepLoad(t, ok, r)
  \/ StepSave(t, ok)
  \/ StepIndex(t, ok)

\* the note operations a caller may start on task t
NoteCalls(t) ==
  \/ \E input \in CreateInputs : createNote(t, input)
  \/ \E id \in TargetIds :
       \/ deleteNote(t, id)
       \/ restoreNote(t, id)
       \/ permanentlyDeleteNote(t, id)

\* one caller, each operation run to completion, the store never failing
Next ==
  \/ Tick
  \/ NoteCalls(1)
  \/ NoteSteps(1, TRUE)

Spec == Init /\ [][Next]_vars

RaceInputs ==
  {[title |-> <<"a">>, content |-> <<>>]}

\* the second caller makes one call
RaceCaller(t) == t = 1 \/ task[t].op = "none"

\* two callers whose createNote / updateNote calls interleave at the
\* storage calls, the store never failing; every id takes the same random
\* suffix, so notes made in one millisecond share their id
NextRace ==
  \/ Tick
  \/ \E t \in Tasks :
       \/ \E input \in RaceInputs : RaceCaller(t) /\ createNote(t, input)
       \/ \E id \in TargetIds :
            RaceCaller(t) /\ updateNote(t, [id |-> id, content |-> <<"e">>])
       \/ StepLoad(t, TRUE, 1)
       \/ StepSave(t, TRUE)
       \/ StepIndex(t, TRUE)

SpecRace == Init /\ [][NextRace]_vars

\* a note stored by a version that had no isFavorite field, as JSON
LegacyNote ==
  [id |-> generateNoteId(0, 1),
   title |-> <<"o">>,
   content |-> <<>>,
   createdAt |-> IsoOf(0),
   updatedAt |-> IsoOf(0),
   isPinned |-> FALSE,
   isFavorite |-> None,
   category |-> None,
   tags |-> <<>>,
   color |-> None,
   isDeleted |-> FALSE]

\* a well-formed backup file holding one note
GoodPayload ==
  [parses |-> TRUE, versionIsString |-> TRUE, hasTimestamp |-> TRUE,
   notesIsArray |-> TRUE, notes |-> <<LegacyNote>>, settings |-> 1,
   hasMetadata |-> TRUE, notesCountIsNumber |-> TRUE, notesCount |-> 1]

\* the texts a caller may pass to importBackup: a well-formed file, one
\* without settings, one that is not JSON
ImportPayloads ==
  {GoodPayload,
   [GoodPayload EXCEPT !.settings = -1],
   [GoodPayload EXCEPT !.parses = FALSE]}

\* texts that parse and fail the structural check otherwise: the version
\* not a string, no timestamp, notes not an array, no metadata, and
\* metadata without a numeric notesCount
BadPayloads ==
  {[GoodPayload EXCEPT !.versionIsString = FALSE],
   [GoodPayload EXCEPT !.hasTimestamp = FALSE],
   [GoodPayload EXCEPT !.notesIsArray = FALSE],
   [GoodPayload EXCEPT !.hasMetadata = FALSE, !.notesCountIsNumber = FALSE],
   [GoodPayload EXCEPT !.notesCountIsNumber = FALSE]}

\* an id no backup has
AbsentBackup == BackupId("backup", MaxClock + 1, 1)

\* the backup ids a caller may pass: those of the records, those of the
\* index, and one of no backup
BackupIds ==
  DOMAIN backups \cup {backupList[i].id : i \in 1..Len(backupList)}
    \cup {AbsentBackup}

Sources == {"manual", "auto"}

\* the steps of the backup operations of task t
BackupSteps(t, ok) ==
  \/ StepBkLoad(t, ok)
  \/ \E r \in Rands : StepBkSettings(t, ok, r)
  \/ StepBkRecord(t, ok)
  \/ StepListGet(t, ok)
  \/ StepListSet(t, ok)
  \/ StepLastBackup(t, ok)
  \/ StepCleanupGet(t, ok)
  \/ StepDeleteRemove(t, ok)
  \/ StepDeleteGet(t, ok)
  \/ StepDeleteSet(t, ok)

\* the steps of restoreBackup that are its own
RestoreSteps(t, ok) ==
  \/ StepRestoreGet(t, ok)
  \/ StepRestoreSettings(t, ok)

\* one caller making, importing and deleting backups and asking whether a
\* backup is due, the store never failing
NextBackup ==
  \/ Tick
  \/ \E source \in Sources : createBackup(1, source)
  \/ \E p \in ImportPayloads \cup BadPayloads, r \in Rands : importBackup(1, p, r)
  \/ \E id \in BackupIds : deleteBackup(1, id)
  \/ needsAutoBackup(1)
  \/ BackupSteps(1, TRUE)
  \/ StepNeedsGet(1, TRUE)

SpecBackup == Init /\ [][NextBackup]_vars

\* backups are made and imported while the index has room, so that
\* cleanupOldBackups has nothing to delete
RestoreCallable == Len(backupList) < MAX_BACKUP_FILES

\* one caller making, importing and restoring backups, and creating and
\* purging notes in between, the store never failing; every id takes the
\* same random suffix
NextRestore ==
  \/ Tick
  \/ createNote(1, [title |-> <<"a">>, content |-> <<>>])
  \/ \E id \in TargetIds : permanentlyDeleteNote(1, id)
  \/ StepLoad(1, TRUE, 1)
  \/ StepSave(1, TRUE)
  \/ StepIndex(1, TRUE)
  \/ RestoreCallable /\ createBackup(1, "manual")
  \/ RestoreCallable /\ importBackup(1, GoodPayload, 1)
  \/ \E id \in BackupIds : restoreBackup(1, id)
  \/ StepBkLoad(1, TRUE)
  \/ StepBkSettings(1, TRUE, 1)
  \/ StepBkRecord(1, TRUE)
  \/ StepListGet(1, TRUE)
  \/ StepListSet(1, TRUE)
  \/ StepLastBackup(1, TRUE)
  \/ StepCleanupGet(1, TRUE)
  \/ RestoreSteps(1, TRUE)

SpecRestore == Init /\ [][NextRestore]_vars

\* the steps of createBackup, importBackup and deleteBackup, every backup
\* id taking the same random suffix
FaultySteps(t, ok) ==
  \/ StepBkLoad(t, ok)
  \/ StepBkSettings(t, ok, 1)
  \/ StepBkRecord(t, ok)
  \/ StepListGet(t, ok)
  \/ StepListSet(t, ok)
  \/ StepLastBackup(t, ok)
  \/ StepCleanupGet(t, ok)
  \/ StepDeleteRemove(t, ok)
  \/ StepDeleteGet(t, ok)
  \/ StepDeleteSet(t, ok)

\* one caller making, importing and deleting backups, each storage call
\* free to fail
NextFaulty ==
  \/ Tick
  \/ createBackup(1, "manual")
  \/ \E p \in ImportPayloads : importBackup(1, p, 1)
  \/ \E id \in BackupIds : deleteBackup(1, id)
  \/ \E ok \in BOOLEAN : FaultySteps(1, ok)

SpecFaulty == Init /\ [][NextFaulty]_vars

\* the inputs a caller may pass to updateNote for the note `id`
UpdateInputs(id) ==
  {[id |-> id, content |-> <<"e">>],
   [id |-> id, title |-> <<" ">>]}

\* one caller creating notes and updating, pinning, favouring and
\* duplicating them by id, and soft-deleting and restoring a note that is
\* not there, the store never failing; every id takes the same random suffix
NextEdit ==
  \/ Tick
  \/ createNote(1, [title |-> <<"a">>, content |-> <<>>])
  \/ deleteNote(1, AbsentId)
  \/ restoreNote(1, AbsentId)
  \/ \E id \in TargetIds :
       \/ \E input \in UpdateInputs(id) : updateNote(1, input)
       \/ togglePinNote(1, id)
       \/ toggleFavoriteNote(1, id)
       \/ duplicateNote(1, id)
  \/ StepPreload(1, TRUE)
  \/ StepLoad(1, TRUE, 1)
  \/ StepSave(1, TRUE)
  \/ StepIndex(1, TRUE)

SpecEdit == Init /\ [][NextEdit]_vars

\* the steps of every operation of task t
AllSteps(t, ok) ==
  \/ StepPreload(t, ok)
  \/ StepLoad(t, ok, 1)
  \/ StepSave(t, ok)
  \/ StepIndex(t, ok)
  \/ FaultySteps(t, ok)
  \/ RestoreSteps(t, ok)
  \/ StepNeedsGet(t, ok)

\* the stores are kept small where storage calls fail: a note is created
\* into an empty collection only, a backup made or imported only when none
\* is indexed or recorded
NoNotes == notes = <<>>
NoBackups == backupList = <<>> /\ DOMAIN backups = {}

\* one caller running note and backup operations within one millisecond,
\* each storage call free to fail; every id takes the same random suffix
NextFail ==
  \/ NoNotes /\ createNote(1, [title |-> <<"a">>, content |-> <<>>])
  \/ \E id \in TargetIds :
       \/ togglePinNote(1, id)
       \/ permanentlyDeleteNote(1, id)
  \/ NoBackups /\ createBackup(1, "manual")
  \/ NoBackups /\ importBackup(1, GoodPayload, 1)
  \/ \E id \in BackupIds :
       \/ deleteBackup(1, id)
       \/ restoreBackup(1, id)
  \/ needsAutoBackup(1)
  \/ \E ok \in BOOLEAN : AllSteps(1, ok)

SpecFail == Init /\ [][NextFail]_vars

\* a stored note as JSON
StoredNote(ts, r, title, content, category, tags, isPinned, isDeleted, updated) ==
  [id |-> generateNoteId(ts, r),
   title |-> title,
   content |-> content,
   createdAt |-> IsoOf(ts),
   updatedAt |-> IsoOf(updated),
   isPinned |-> isPinned,
   isFavorite |-> Some(FALSE),
   category |-> category,
   tags |-> tags,
   color |-> None,
   isDeleted |-> isDeleted]

\* four stored notes: two titles equal but for case, two categories, tags
\* shared and not, a pinned note, a deleted note, equal and distinct dates
SampleNotes ==
  {StoredNote(0, 1, <<"A", "b">>, <<>>, None, <<>>, FALSE, FALSE, 1),
   StoredNote(0, 2, <<"a", "B">>, <<"x">>, Some(<<"w">>), <<<<"t">>>>, TRUE, FALSE, 0),
   StoredNote(1, 1, <<"b">>, <<>>, None, <<<<"t">>, <<"x">>>>, FALSE, TRUE, 1),
   StoredNote(1, 2, <<"g">>, <<>>, Some(<<"A", "w">>), <<>>, FALSE, FALSE, 1)}

\* the stored collections: up to MaxLen of those notes in any order
Collections ==
  {c \in UNION {[1..n -> SampleNotes] : n \in 0..MaxLen} :
     \A i, j \in DOMAIN c : i # j => c[i] # c[j]}

\* queries that filter and sort
FilterOptions ==
  {[DefaultOptions EXCEPT !.includeDeleted = d, !.isPinned = p, !.category = c,
                          !.tags = g, !.searchTerm = s, !.sortBy = b,
                          !.sortOrder = o] :
     d \in BOOLEAN, p \in {None, Some(TRUE), Some(FALSE)},
     c \in {<<>>, <<"w">>},
     g \in {<<>>, <<<<"t">>>>, <<<<"x">>, <<"y">>>>},
     s \in {<<>>, <<"A">>, <<"x">>},
     b \in {None, Some("title"), Some("createdAt")},
     o \in {None, Some("asc")}}

\* queries that sort and paginate
PageOptions ==
  {[DefaultOptions EXCEPT !.includeDeleted = d, !.sortBy = b, !.sortOrder = o,
                          !.offset = f, !.limit = l] :
     d \in BOOLEAN,
     b \in {None, Some("title"), Some("createdAt")},
     o \in {None, Some("asc")},
     f \in {None, Some(0), Some(1)},
     l \in {None, Some(0), Some(1), Some(2)}}

\* search terms: empty, blank, matching titles at their start and further
\* in, matching a content and a tag, matching nothing
SearchTerms ==
  {<<>>, <<" ">>, <<"A">>, <<"b">>, <<"x">>, <<"y">>, <<"a", "b">>}

\* the notes store holds any of the collections when the queries start
InitQuery ==
  /\ now = MaxClock
  /\ notes \in Collections
  /\ notesIndex = SearchIndex(ProcessedNotes(notes))
  /\ settings = -1
  /\ backups = <<>>
  /\ backupList = <<>>
  /\ lastBackup = None
  /\ task = [t \in Tasks |-> NoTask]
  /\ prev = NoPrev
  /\ state = initialState

\* one caller querying or searching a stored collection, storage reliable;
\* a query changes nothing stored, so the caller makes one query and may
\* repeat it
NextQuery ==
  \/ /\ task[1].pc = "idle"
     /\ \E options \in FilterOptions \cup PageOptions : getNotesCall(1, options)
  \/ /\ task[1].pc = "idle"
     /\ \E searchTerm \in SearchTerms : searchNotesCall(1, searchTerm)
  \/ getNotesAgain(1)
  \/ StepQuery(1, TRUE)

SpecQuery == InitQuery /\ [][NextQuery]_vars

\* the random suffixes that give createBackup an id no backup has
FreshRands ==
  {r \in Rands :
     /\ ~HasBackup(BackupId("backup", now, r))
     /\ \A i \in 1..Len(backupList) : backupList[i].id # BackupId("backup", now, r)}

\* one caller creating a note and making backups within one millisecond,
\* each storage call free to fail; a backup is imported only into an empty
\* backup store, and every backup made takes an id no backup has
NextBestEffort ==
  \/ NoNotes /\ createNote(1, [title |-> <<"a">>, content |-> <<>>])
  \/ FreshRands # {} /\ createBackup(1, "manual")
  \/ NoBackups /\ importBackup(1, GoodPayload, 1)
  \/ \E ok \in BOOLEAN :
       \/ StepLoad(1, ok, 1)
       \/ StepSave(1, ok)
       \/ StepIndex(1, ok)
       \/ StepBkLoad(1, ok)
       \/ \E r \in FreshRands : StepBkSettings(1, ok, r)
       \/ StepBkRecord(1, ok)
       \/ StepListGet(1, ok)
       \/ StepListSet(1, ok)
       \/ StepLastBackup(1, ok)
       \/ StepCleanupGet(1, ok)
       \/ StepDeleteRemove(1, ok)
       \/ StepDeleteGet(1, ok)
       \/ StepDeleteSet(1, ok)

SpecBestEffort == Init /\ [][NextBestEffort]_vars

(* --------------------------- NotesProvider ---------------------------- *)

\* computeFilteredNotes(notes) as the closure of a render computes it: st
\* is the state of that render
computeFilteredNotes(st, ns) ==
  LET query == ToLowerCase(Trim(st.searchQuery))
      searched == IF query # <<>>
                  THEN SelectSeq(ns, LAMBDA n : MatchesTerm(n, query)) ELSE ns
      inCategory == IF st.selectedCategory # None /\ st.selectedCategory[1] # <<>>
                    THEN SelectSeq(searched, LAMBDA n : n.category = st.selectedCategory)
                    ELSE searched
      tagged == IF Len(st.selectedTags) > 0
                THEN SelectSeq(inCategory, LAMBDA n :
                       \E i \in 1..Len(st.selectedTags) :
                         st.selectedTags[i] \in Range(n.tags))
                ELSE inCategory
  IN SortNotes(tagged, st.sortBy, st.sortOrder)

\* notesReducer(state, {type, payload})
notesReducer(st, type, payload) ==
  CASE type = "SET_LOADING" -> [st EXCEPT !.loading = payload]
    [] type = "SET_ERROR" -> [st EXCEPT !.error = payload]
    [] type = "SET_NOTES" -> [st EXCEPT !.notes = payload]
    [] type = "ADD_NOTE" -> [st EXCEPT !.notes = <<payload>> \o @]
    [] type = "UPDATE_NOTE" ->
         [st EXCEPT !.notes = [i \in 1..Len(@) |->
            IF @[i].id = payload.id THEN payload ELSE @[i]]]
    [] type = "DELETE_NOTE" ->
         [st EXCEPT !.notes = [i \in 1..Len(@) |->
            IF @[i].id = payload THEN [@[i] EXCEPT !.isDeleted = TRUE] ELSE @[i]]]
    [] type = "TOGGLE_PIN_NOTE" ->
         [st EXCEPT !.notes = [i \in 1..Len(@) |->
            IF @[i].id = payload THEN [@[i] EXCEPT !.isPinned = ~@] ELSE @[i]]]
    [] type = "SET_SEARCH_QUERY" -> [st EXCEPT !.searchQuery = payload]
    [] type = "SET_FILTERED_NOTES" -> [st EXCEPT !.filteredNotes = payload]
    [] type = "SET_CATEGORY_FILTER" -> [st EXCEPT !.selectedCategory = payload]
    [] type = "SET_TAG_FILTER" -> [st EXCEPT !.selectedTags = payload]
    [] type = "SET_SORT" ->
         [st EXCEPT !.sortBy = payload.sortBy, !.sortOrder = payload.sortOrder]

\* the dependencies of computeFilteredNotes, hence of loadNotes and of the
\* effect that calls it
Deps(st) ==
  <<st.searchQuery, st.selectedCategory, st.selectedTags, st.sortBy, st.sortOrder>>

\* the provider is at rest: no service call, no loadNotes in flight or due
AtRest == task[1].pc = "idle" /\ ~state.loading /\ ~state.reload

\* a synchronous handler of the provider: it dispatches {type, payload},
\* then SET_FILTERED_NOTES with the list its own render computes; the
\* effect is due when a dependency changed (a tags array is a new object
\* each time)
Handled(type, payload, filtered) ==
  LET reduced == notesReducer(notesReducer(state, type, payload),
                              "SET_FILTERED_NOTES", filtered)
  IN /\ AtRest
     /\ state' = [reduced EXCEPT !.reload =
                    type = "SET_TAG_FILTER" \/ Deps(reduced) # Deps(state)]
     /\ UNCHANGED <<now, store, task, prev>>

\* the effect calls the provider's loadNotes, which runs up to its await
loadNotes_Begin ==
  /\ state.reload /\ ~state.loading
  /\ state' = [notesReducer(notesReducer(state, "SET_LOADING", TRUE),
                            "SET_ERROR", None)
                 EXCEPT !.reload = FALSE]
  /\ UNCHANGED <<now, store, task, prev>>

\* the provider's loadNotes after NotesService.loadNotes() has read the
\* store: SET_NOTES, SET_FILTERED_NOTES as computed by the render that
\* made this loadNotes, SET_LOADING false
loadNotes_End ==
  LET data == ProcessedNotes(notes)
      loaded == notesReducer(state, "SET_NOTES", data)
      shown == notesReducer(loaded, "SET_FILTERED_NOTES",
                            computeFilteredNotes(state, data))
  IN /\ state.loading
     /\ state' = notesReducer(shown, "SET_LOADING", FALSE)
     /\ UNCHANGED <<now, store, task, prev>>

\* the provider's searchNotes(query)
NotesProvider_searchNotes(query) ==
  Handled("SET_SEARCH_QUERY", query,
          IF Trim(query) = <<>> THEN computeFilteredNotes(state, state.notes)
          ELSE SelectSeq(state.notes, LAMBDA n : MatchesTerm(n, ToLowerCase(query))))

filterByCategory(category) ==
  Handled("SET_CATEGORY_FILTER", category,
          computeFilteredNotes(state, state.notes))

filterByTags(tags) ==
  Handled("SET_TAG_FILTER", tags,
          computeFilteredNotes(state, state.notes))

setSortOption(sortBy, sortOrder) ==
  Handled("SET_SORT", [sortBy |-> sortBy, sortOrder |-> sortOrder],
          computeFilteredNotes(state, state.notes))

\* the action the provider's createNote, updateNote, deleteNote and
\* togglePinNote dispatch when the service call has succeeded
Dispatched(tk) ==
  CASE tk.op = "createNote" -> <<"ADD_NOTE", tk.note[1]>>
    [] tk.op = "updateNote" -> <<"UPDATE_NOTE", tk.note[1]>>
    [] tk.op = "deleteNote" -> <<"DELETE_NOTE", tk.id>>
    [] tk.op = "togglePinNote" -> <<"TOGGLE_PIN_NOTE", tk.id>>

\* the provider's createNote, updateNote, deleteNote and togglePinNote
\* after their await of the NotesService call of task t: SET_ERROR null
\* (dispatched before the await, no handler reading state.error in
\* between), then on success the action on the notes and SET_FILTERED_NOTES
\* with computeFilteredNotes(newNotes), newNotes built from state.notes
\* as the reducer builds it; on failure SET_ERROR with the message
NotesProvider_Resume(t) ==
  LET tk == task[t]
      cleared == notesReducer(state, "SET_ERROR", None)
      type == Dispatched(tk)[1]
      payload == Dispatched(tk)[2]
      newNotes == notesReducer(state, type, payload).notes
  IN /\ tk.pc = "done"
     /\ state' =
          IF tk.res = "ok"
          THEN notesReducer(notesReducer(cleared, type, payload),
                            "SET_FILTERED_NOTES",
                            computeFilteredNotes(state, newNotes))
          ELSE notesReducer(cleared, "SET_ERROR", Some(tk.res))
     /\ task' = [task EXCEPT ![t] = NoTask]
     /\ UNCHANGED <<now, store, prev>>

\* what the screens pass to the provider
ProviderCategories == {None, Some(<<"w">>)}
ProviderTags == {<<>>, <<<<"t">>>>}
ProviderSorts == {<<"updatedAt", "desc">>, <<"title", "asc">>}
ProviderQueries == {<<>>, <<"a">>}

\* the provider mounted on an empty store and one screen using it, each
\* handler called when the provider is at rest; the first note made has no
\* category, the second has one; the store never fails and every id takes
\* the same random suffix
NextProvider ==
  \/ Tick
  \/ /\ AtRest
     /\ \/ state.notes = <<>> /\ createNote(1, [title |-> <<"a">>, content |-> <<>>])
        \/ Len(state.notes) = 1 /\ createNote(1, [title |-> <<"B">>, content |-> <<>>, category |-> <<"w">>,
                          tags |-> <<<<"t">>>>])
        \/ \E id \in {state.notes[i].id : i \in 1..Len(state.notes)} :
             \/ updateNote(1, [id |-> id, content |-> <<"e">>])
             \/ deleteNote(1, id)
             \/ togglePinNote(1, id)
  \/ StepPreload(1, TRUE)
  \/ StepLoad(1, TRUE, 1)
  \/ StepSave(1, TRUE)
  \/ StepIndex(1, TRUE)
  \/ NotesProvider_Resume(1)
  \/ loadNotes_Begin
  \/ loadNotes_End
  \/ \E query \in ProviderQueries : NotesProvider_searchNotes(query)
  \/ \E category \in ProviderCategories : filterByCategory(category)
  \/ \E tags \in ProviderTags : filterByTags(tags)
  \/ \E sort \in ProviderSorts : setSortOption(sort[1], sort[2])

SpecProvider == Init /\ [][NextProvider]_vars

(* ------------------------------- claims ------------------------------- *)

\* the operation of the single caller of Spec, and whether it has returned
cur == task[1]
Returned(op) == cur.op = op /\ cur.pc = "done"

AnyDeleted(js) == \E i \in 1..Len(js) : js[i].isDeleted

\* C4: a createNote (its input passing validation) that finds MAX_NOTES or
\* more notes stored, soft-deleted ones counted, returns MAX_NOTES_REACHED
\* and leaves the stored collection as it was; one that finds fewer is never
\* answered MAX_NOTES_REACHED
C4_CapacityEnforced ==
  Returned("createNote") =>
    /\ (Len(cur.pre) >= MAX_NOTES /\ validateNoteInput(cur.input) = "")
         => (cur.res = MAX_NOTES_REACHED /\ notes = cur.pre /\ cur.writes = 0)
    /\ Len(cur.pre) < MAX_NOTES => cur.res # MAX_NOTES_REACHED

\* a full collection holding a soft-deleted note has refused a create
C4_Witness ==
  /\ Returned("createNote")
  /\ cur.res = MAX_NOTES_REACHED
  /\ Len(cur.pre) = MAX_NOTES
  /\ AnyDeleted(cur.pre)

\* C9: createNote with a title that is empty after trimming returns
\* TITLE_REQUIRED having made no storage call; the stored collection is
\* the one it was called on
C9_BlankTitleRejected ==
  (Returned("createNote") /\ Trim(cur.input.title) = <<>>) =>
    /\ cur.res = TITLE_REQUIRED
    /\ cur.reads = 0
    /\ cur.writes = 0
    /\ notes = cur.pre

\* a whitespace-only title has been refused on a non-empty collection
C9_Witness ==
  /\ Returned("createNote")
  /\ cur.input.title = <<" ">>
  /\ cur.res = TITLE_REQUIRED
  /\ notes # <<>>

\* the soft-deleted notes of the stored collection
DeletedNotes == {n \in Range(ProcessedNotes(notes)) : n.isDeleted}
ActiveNotes == {n \in Range(ProcessedNotes(notes)) : ~n.isDeleted}

\* C8: after deleteNote(id) the note is still stored, flagged deleted, and
\* getNoteById(id) returns it; and no soft-deleted note is in getNotes with
\* default options, nor is its category or a tag of it listed by
\* getCategories / getTags unless a note that is not deleted carries it
C8_SoftDeleteSemantics ==
  /\ (Returned("deleteNote") /\ cur.res = "ok") =>
       /\ getNoteById(cur.id) # None
       /\ getNoteById(cur.id)[1].isDeleted
       /\ getNoteById(cur.id)[1] \in Range(ProcessedNotes(notes))
  /\ \A n \in DeletedNotes :
       /\ n \notin Range(getNotes(DefaultOptions))
       /\ (n.category # None /\ n.category[1] \in getCategories)
            => \E m \in ActiveNotes : m.category = n.category
       /\ \A tag \in Range(n.tags) :
            tag \in getTags => \E m \in ActiveNotes : tag \in Range(m.tags)

\* deleteNote has flagged a note that has a category and a tag, beside a
\* note that is not deleted
C8_Witness ==
  /\ Returned("deleteNote")
  /\ cur.res = "ok"
  /\ getNoteById(cur.id)[1].category # None
  /\ getNoteById(cur.id)[1].tags # <<>>
  /\ ActiveNotes # {}

\* the stored collection `after` is `before` but for updatedAt of the note
\* at index i
SameButUpdatedAt(before, after, i) ==
  /\ Len(after) = Len(before)
  /\ \A k \in 1..Len(before) :
       IF k = i THEN after[k] = [before[k] EXCEPT !.updatedAt = after[k].updatedAt]
       ELSE after[k] = before[k]

\* restoreNote(id) has returned success right after deleteNote(id) did
UndoneDelete ==
  /\ Returned("restoreNote")
  /\ cur.res = "ok"
  /\ prev.op = "deleteNote"
  /\ prev.res = "ok"
  /\ prev.id = cur.id

\* C7 as stated: deleteNote(id) then restoreNote(id) leaves the note as it
\* was before the delete but for updatedAt, and the collection's size and
\* order as they were, for any note of the collection
C7_Original ==
  UndoneDelete => SameButUpdatedAt(prev.pre, notes, FindIndex(prev.pre, cur.id))

\* C7 amended: the same for any note that was not soft-deleted before the
\* deleteNote
C7_UndoDelete ==
  (UndoneDelete /\ ~prev.pre[FindIndex(prev.pre, cur.id)].isDeleted) =>
    SameButUpdatedAt(prev.pre, notes, FindIndex(prev.pre, cur.id))

\* a note of a two-note collection has been deleted and restored later
C7_Witness ==
  /\ UndoneDelete
  /\ ~prev.pre[FindIndex(prev.pre, cur.id)].isDeleted
  /\ Len(notes) = 2
  /\ notes[FindIndex(notes, cur.id)].updatedAt # prev.pre[FindIndex(prev.pre, cur.id)].updatedAt

\* C6: the ids of the stored notes, soft-deleted ones included, are
\* pairwise distinct
C6_IdsDistinct ==
  \A i, j \in 1..Len(notes) : i # j => notes[i].id # notes[j].id

\* C10: createNote and updateNote refuse, and write nothing for, every
\* input validateNote finds invalid
C10_ValidationEnforced ==
  ((Returned("createNote") \/ Returned("updateNote")) /\ ~validateNote(cur.input)) =>
    (cur.res # "ok" /\ cur.writes = 0 /\ notes = cur.pre)

\* what the operation of record tk makes of the collection `base`
Change(tk, base) ==
  IF tk.op = "createNote" THEN <<tk.note[1]>> \o base
  ELSE [base EXCEPT ![FindIndex(base, tk.input.id)] = tk.note[1]]

\* t and u both loaded before either saved, t saved first, both returned
Raced(t, u) ==
  /\ t # u
  /\ task[t].pc = "done"
  /\ task[t].res = "ok"
  /\ u \in task[t].rivals
  /\ task[u].pc = "done"

\* C5: when two mutating operations have both loaded before either saved,
\* the one that saves last also returns success, and the stored collection
\* is its change applied to the collection it had loaded, in which the
\* first one's change is not: no check rejects or merges the stale save
C5_LostUpdate ==
  \A t, u \in Tasks :
    Raced(t, u) =>
      /\ task[u].res = "ok"
      /\ notes = NotesToJSON(Change(task[u], ProcessedNotes(task[u].base)))

\* a createNote that returned success and whose note is not stored, an
\* updateNote having saved after it
C5_Witness ==
  \E t, u \in Tasks :
    /\ Raced(t, u)
    /\ task[t].op = "createNote"
    /\ task[u].op = "updateNote"
    /\ \A i \in 1..Len(notes) : notes[i].id # task[t].note[1].id

\* the ids of the backup index and of the backup records
IndexIds == {backupList[i].id : i \in 1..Len(backupList)}
RecordIds == DOMAIN backups

\* C1: when createBackup returns successfully, getBackupList has at most
\* MAX_BACKUP_FILES entries, whatever backups were made, imported or deleted
\* before it (the store never failing)
C1_RetentionBound ==
  (Returned("createBackup") /\ cur.res = "ok") =>
    Len(getBackupList) <= MAX_BACKUP_FILES

\* a createBackup whose cleanup deleted a backup and left the list full
C1_Witness ==
  /\ Returned("createBackup")
  /\ cur.res = "ok"
  /\ cur.writes > 3
  /\ Len(getBackupList) = MAX_BACKUP_FILES

\* C2: whenever no backup operation is in flight, the ids of the backup
\* index are the ids of the persisted backup records, storage calls failing
\* or not
C2_IndexMatchesRecords ==
  (\A t \in Tasks : task[t].pc \in {"idle", "done"}) => IndexIds = RecordIds

\* C3: restoreBackup of the id a successful createBackup returned, only note
\* operations and restores called since, succeeds and leaves stored the
\* collection loadNotes returned when the backup was made
C3_RoundTrip ==
  (Returned("restoreBackup") /\ cur.made # None /\ cur.id = cur.made[1].id) =>
    /\ cur.res = "ok"
    /\ ProcessedNotes(notes) = ProcessedNotes(cur.made[1].notes)

\* a restore that brought back a non-empty collection the notes had moved
\* away from
C3_Witness ==
  /\ Returned("restoreBackup")
  /\ cur.made # None
  /\ cur.id = cur.made[1].id
  /\ cur.made[1].notes # <<>>
  /\ ProcessedNotes(cur.pre) # ProcessedNotes(cur.made[1].notes)
  /\ ProcessedNotes(notes) = ProcessedNotes(cur.made[1].notes)

\* the operations that look a note up by id
LookupOps == {"updateNote", "deleteNote", "restoreNote", "togglePinNote",
              "toggleFavoriteNote", "duplicateNote"}

\* the operation of the caller has returned and no note stored when it was
\* called had its id
ReturnedAbsent ==
  /\ cur.pc = "done"
  /\ cur.op \in LookupOps
  /\ FindIndex(ProcessedNotes(cur.pre), cur.id) = 0

\* C11: updateNote (its input passing validateNoteInput), deleteNote,
\* restoreNote, togglePinNote, toggleFavoriteNote and duplicateNote called
\* with an id no stored note has return NOTE_NOT_FOUND without a storage
\* write: the stored notes and the search index are as they were
C11_NotFound ==
  (ReturnedAbsent /\ validateNoteInput(cur.input) = "") =>
    /\ cur.res = NOTE_NOT_FOUND
    /\ cur.writes = 0
    /\ notes = cur.pre
    /\ notesIndex = cur.preIndex

\* an updateNote of an absent id has returned, notes being stored
C11_Witness ==
  /\ ReturnedAbsent
  /\ cur.op = "updateNote"
  /\ validateNoteInput(cur.input) = ""
  /\ cur.res = NOTE_NOT_FOUND
  /\ notes # <<>>
  /\ notesIndex # <<>>

\* the steps of `op` whose storage call the operation depends on: the
\* reads and writes of the notes, of the settings and of a backup record
Fatal(op) ==
  {"preload", "load", "save", "bk_load", "bk_settings", "bk_record",
   "rs_get", "rs_settings"}
    \cup (IF op = "deleteBackup" THEN {"del_remove"} ELSE {})

\* an operation that returns an ActionResult has returned
ReturnedResult == cur.pc = "done" /\ cur.op # "needsAutoBackup"

Queried == cur.op = "getNotes" /\ cur.pc = "done" /\ cur.res = "ok"

\* the query asks for no pagination
Unpaged(options) == options.offset = None /\ options.limit = None

\* `term` occurs in `text`, letter case apart
ContainsNoCase(text, term) ==
  \E i \in 0..(Len(text) - Len(term)) :
    \A k \in 1..Len(term) : LowerChar(text[i + k]) = LowerChar(term[k])

\* the notes a query with these options is to return
Reference(ns, o) ==
  {n \in Range(ns) :
     /\ o.includeDeleted \/ ~n.isDeleted
     /\ o.isPinned = None \/ n.isPinned = o.isPinned[1]
     /\ o.category = <<>> \/ n.category = Some(o.category)
     /\ o.tags = <<>> \/ Range(o.tags) \cap Range(n.tags) # {}
     /\ \/ o.searchTerm = <<>>
        \/ ContainsNoCase(n.title, o.searchTerm)
        \/ ContainsNoCase(n.content, o.searchTerm)
        \/ \E g \in Range(n.tags) : ContainsNoCase(g, o.searchTerm)
        \/ (n.category # None /\ ContainsNoCase(n.category[1], o.searchTerm))}

\* C13: a query without offset and limit returns exactly the notes of the
\* stored collection that are not deleted (unless includeDeleted), have the
\* pinned state asked for, the category asked for, at least one of the tags
\* asked for, and hold the search term, letter case apart, in their title,
\* content, a tag or their category
C13_FilterResult ==
  (Queried /\ Unpaged(cur.input)) =>
    Range(cur.out) = Reference(ProcessedNotes(notes), cur.input)

\* a query by search term over deleted notes too has returned a note that
\* holds the term in its category only, and left another note out
C13_Witness ==
  /\ Queried
  /\ Unpaged(cur.input)
  /\ cur.input.includeDeleted
  /\ cur.input.searchTerm # <<>>
  /\ \E n \in Range(cur.out) :
       /\ n.category # None
       /\ ContainsNoCase(n.category[1], cur.input.searchTerm)
       /\ ~ContainsNoCase(n.title, cur.input.searchTerm)
       /\ ~ContainsNoCase(n.content, cur.input.searchTerm)
  /\ Range(cur.out) # Range(ProcessedNotes(notes))

SortFieldOf(o) == IF o.sortBy = None THEN "updatedAt" ELSE o.sortBy[1]
SortOrderOf(o) == IF o.sortOrder = None THEN "desc" ELSE o.sortOrder[1]

\* the sort key of a note: the lower-cased title, or the instant of a date
SortKey(n, field) ==
  IF field = "title" THEN ToLowerCase(n.title) ELSE GetTime(n[field])

\* k1 <= k2 on sort keys
KeyLeq(k1, k2, field) ==
  IF field = "title" THEN k1 = k2 \/ StrLess(k1, k2) ELSE k1 <= k2

\* the place of note n in the collection ns
PlaceIn(ns, n) == CHOOSE i \in 1..Len(ns) : ns[i] = n

\* C15: in the list a query returns every adjacent pair is ordered by the
\* sort key (lower-cased title, or instant of createdAt / updatedAt) in the
\* direction asked for, and two notes with equal keys stand in the order
\* they have in the stored collection
C15_SortCorrect ==
  Queried =>
    LET field == SortFieldOf(cur.input)
        ns == ProcessedNotes(notes)
        key(i) == SortKey(cur.out[i], field)
    IN /\ \A i \in 1..(Len(cur.out) - 1) :
            IF SortOrderOf(cur.input) = "asc"
            THEN KeyLeq(key(i), key(i + 1), field)
            ELSE KeyLeq(key(i + 1), key(i), field)
       /\ \A i, j \in 1..Len(cur.out) :
            (i < j /\ key(i) = key(j)) =>
               PlaceIn(ns, cur.out[i]) < PlaceIn(ns, cur.out[j])

\* a query sorted by title ascending has returned three notes in another
\* order than they are stored, two of them with titles equal but for case
C15_Witness ==
  /\ Queried
  /\ cur.input.sortBy = Some("title")
  /\ cur.input.sortOrder = Some("asc")
  /\ Len(cur.out) = 3
  /\ cur.out # ProcessedNotes(notes)
  /\ cur.out[1].title # cur.out[2].title
  /\ ToLowerCase(cur.out[1].title) = ToLowerCase(cur.out[2].title)
  /\ StrLess(cur.out[1].title, cur.out[2].title) = FALSE

\* the query asks for pagination
Paged(o) == o.offset # None \/ o.limit # None

\* list s without its first `offset` elements, cut to at most `limit`
DropTake(s, offset, limit) ==
  LET dropped == SubSeq(s, offset + 1, Len(s))
  IN IF limit = None \/ limit[1] >= Len(dropped) THEN dropped
     ELSE SubSeq(dropped, 1, limit[1])

\* C16: a query with an offset or a limit (or both, of any value from 0 up)
\* returns the list the same query without them returns, less its first
\* `offset` notes and cut to at most `limit` notes
C16_PaginationLast ==
  (Queried /\ Paged(cur.input)) =>
    cur.out = DropTake(filterNotes(ProcessedNotes(notes),
                         [cur.input EXCEPT !.offset = None, !.limit = None]),
                       OrZero(cur.input.offset), cur.input.limit)

\* searchNotes has returned its results
Searched == cur.op = "searchNotes" /\ cur.pc = "done"

\* the search term is empty once trimmed
Blank(term) == Trim(term) = <<>>

\* the results are in descending order of score, equal scores in the order
\* their notes have in the collection searched
RankedStably(out, ns) ==
  \A i, j \in 1..Len(out) :
    i < j =>
      /\ out[i].score >= out[j].score
      /\ out[i].score = out[j].score =>
           PlaceIn(ns, out[i].item) < PlaceIn(ns, out[j].item)

\* C17 as stated: whatever the term, searchNotes returns only results with
\* a score above 0, in descending order of score, equal scores in input
\* order
C17_Original ==
  Searched =>
    /\ \A i \in 1..Len(cur.out) : cur.out[i].score > 0
    /\ RankedStably(cur.out, cur.arg)

\* C17: for a term that is not blank searchNotes returns the notes whose
\* calculateScore is above 0, and only those, each with that score, in
\* descending order of score, equal scores in input order; for a blank term
\* it returns every note, in input order, each with score 0
C17_SearchOrder ==
  Searched =>
    LET term == cur.input.searchTerm
    IN IF Blank(term)
       THEN /\ [i \in 1..Len(cur.out) |-> cur.out[i].item] = cur.arg
            /\ \A i \in 1..Len(cur.out) : cur.out[i].score = 0
       ELSE /\ {cur.out[i].item : i \in 1..Len(cur.out)}
                 = {n \in Range(cur.arg) : calculateScore(n, term) > 0}
            /\ \A i \in 1..Len(cur.out) :
                 /\ cur.out[i].score = calculateScore(cur.out[i].item, term)
                 /\ cur.out[i].score > 0
            /\ RankedStably(cur.out, cur.arg)

\* a search has left a note out and returned three, two of them with one
\* score and stored before a note that scores higher
C17_Witness ==
  /\ Searched
  /\ ~Blank(cur.input.searchTerm)
  /\ Len(cur.out) = 3
  /\ cur.out[1].score > cur.out[2].score
  /\ cur.out[2].score = cur.out[3].score
  /\ PlaceIn(cur.arg, cur.out[1].item) > PlaceIn(cur.arg, cur.out[3].item)

\* note n with the term appended to its title
WithTerm(n, term) == [n EXCEPT !.title = @ \o term]

\* C18: for every note searched whose title does not contain the term (as
\* the search compares, letter case apart), the note with the term appended
\* to its title, all other fields equal, has a strictly greater
\* calculateScore
C18_TitleMonotone ==
  Searched =>
    \A n \in Range(cur.arg) :
      ~ContainsNoCase(n.title, cur.input.searchTerm) =>
        calculateScore(WithTerm(n, cur.input.searchTerm), cur.input.searchTerm)
          > calculateScore(n, cur.input.searchTerm)

\* a search has left out a deleted note that matches by a tag only, and
\* the same note with the term appended to its title scores above 0
C18_Witness ==
  /\ Searched
  /\ ~Blank(cur.input.searchTerm)
  /\ \E n \in Range(cur.arg) :
       /\ n.isDeleted
       /\ ~ContainsNoCase(n.title, cur.input.searchTerm)
       /\ \E g \in Range(n.tags) : ContainsNoCase(g, cur.input.searchTerm)
       /\ n \notin {cur.out[i].item : i \in 1..Len(cur.out)}
       /\ calculateScore(n, cur.input.searchTerm) < 0
       /\ calculateScore(WithTerm(n, cur.input.searchTerm), cur.input.searchTerm) > 0

\* the text handed to importBackup is not JSON, or is JSON that lacks a
\* string version, a timestamp, a notes array, settings, or a numeric
\* metadata.notesCount
Malformed(p) ==
  \/ ~p.parses
  \/ ~p.versionIsString
  \/ ~p.hasTimestamp
  \/ ~p.notesIsArray
  \/ p.settings = -1
  \/ ~p.hasMetadata
  \/ ~p.notesCountIsNumber

\* importBackup of such a text has returned
ImportRejected ==
  cur.op = "importBackup" /\ cur.pc = "done" /\ Malformed(cur.input)

\* C19: importBackup of a text that is not JSON or fails the structural
\* check returns an error having made no storage write: the backup records,
\* the backup index, the notes, the settings and the rest of the store are
\* what they were when it was called
C19_ImportRejected ==
  ImportRejected =>
    /\ cur.res # "ok"
    /\ cur.writes = 0
    /\ Some(store) = cur.snap

\* an import of JSON without settings has been refused with the
\* invalid-format error while backups are stored
C19_Witness ==
  /\ ImportRejected
  /\ cur.input.parses
  /\ cur.input.settings = -1
  /\ cur.res = INVALID_BACKUP
  /\ backupList # <<>>
  /\ DOMAIN backups # {}

\* C20: whenever the createBackup and importBackup calls made so far have
\* all returned, the backup index holds at most MAX_BACKUP_FILES entries
C20_ImportsCapped ==
  cur.pc \in {"idle", "done"} => Len(backupList) <= MAX_BACKUP_FILES

\* the instant of the newest backup of the index
NewestBackupTime ==
  LET times == {GetTime(NewDate(backupList[i].timestamp)) : i \in 1..Len(backupList)}
  IN CHOOSE m \in times : \A x \in times : x <= m

\* needsAutoBackup is to answer true
BackupDue ==
  \/ NoBackups
  \/ now - NewestBackupTime >= AUTO_BACKUP_INTERVAL

\* C21: needsAutoBackup, reading the store as it is, returns true when no
\* backup exists (all of them deleted, or none made yet) and otherwise
\* exactly when AUTO_BACKUP_INTERVAL or more has passed since the newest
\* backup
C21_AutoBackupDue ==
  [][(task[1].pc = "na_get" /\ task'[1].pc = "done") =>
       (task'[1].res = "true" <=> BackupDue)]_vars

\* the ids of a collection of notes
NoteIds(ns) == {ns[i].id : i \in 1..Len(ns)}

\* C22: after a successful restoreBackup(id) the stored notes and settings
\* are those of the record (so a note created since the backup is gone and
\* a note purged since is back), and the backup records and the backup
\* index are what they were when it was called
C22_FullOverwrite ==
  (Returned("restoreBackup") /\ cur.res = "ok") =>
    /\ HasBackup(cur.id)
    /\ notes = backups[cur.id].notes
    /\ settings = backups[cur.id].settings
    /\ backups = cur.snap[1][4]
    /\ backupList = cur.snap[1][5]

\* a restore has removed a note created after the backup, brought back a
\* note purged after it, and changed the settings
C22_Witness ==
  /\ Returned("restoreBackup")
  /\ cur.res = "ok"
  /\ NoteIds(cur.pre) \ NoteIds(notes) # {}
  /\ NoteIds(notes) \ NoteIds(cur.pre) # {}
  /\ settings # cur.snap[1][3]

\* sequence s without its i-th element
Without(s, i) == SubSeq(s, 1, i - 1) \o SubSeq(s, i + 1, Len(s))

\* note d is a duplicate of note src as duplicateNote is to make it
DuplicateOf(d, src) ==
  /\ d.title = src.title \o Copy
  /\ d.content = src.content
  /\ d.category = src.category
  /\ d.tags = src.tags
  /\ d.color = src.color
  /\ ~d.isPinned
  /\ d.isFavorite = Some(FALSE)
  /\ ~d.isDeleted

\* C23: duplicateNote(id) of a stored note succeeds and leaves stored the
\* notes that were stored, unchanged, and one note more, which has an id no
\* other stored note has, the title of the source followed by " (Copy)",
\* its content, category, tags and color, and is not pinned, favorited or
\* deleted
C23_Duplicate ==
  (Returned("duplicateNote") /\ ~ReturnedAbsent) =>
    /\ cur.res = "ok"
    /\ \E i \in 1..Len(notes) :
         /\ Without(notes, i) = cur.pre
         /\ notes[i].id \notin NoteIds(cur.pre)
         /\ DuplicateOf(ProcessedNote(notes[i]),
                        ProcessedNotes(cur.pre)[FindIndex(ProcessedNotes(cur.pre), cur.id)])

\* the steps of cleanupOldBackups and of the deleteBackup calls it makes
CleanupSteps == {"cl_get", "del_remove", "del_get", "del_set"}

\* C24: a createNote during which the write of the search index failed
\* returns success with the notes it saved stored, and a createBackup during
\* which a storage call of the retention cleanup failed returns success with
\* the record of the new backup stored
C24_BestEffort ==
  /\ (Returned("createNote") /\ "index" \in cur.failed) =>
       /\ cur.res = "ok"
       /\ notes = NotesToJSON(<<cur.note[1]>> \o ProcessedNotes(cur.pre))
  /\ (Returned("createBackup") /\ cur.failed \cap CleanupSteps # {}) =>
       /\ cur.res = "ok"
       /\ HasBackup(cur.id)

\* a createBackup has returned success, its record stored, after the
\* cleanup failed to remove the record of the backup it was deleting
C24_Witness ==
  /\ Returned("createBackup")
  /\ "del_remove" \in cur.failed
  /\ cur.res = "ok"
  /\ HasBackup(cur.id)
  /\ Len(backupList) > MAX_BACKUP_FILES

\* C25: the clock never running backwards, every stored note has
\* updatedAt >= createdAt, and the note a createNote or duplicateNote has
\* just stored has createdAt = updatedAt
C25_Timestamps ==
  /\ \A i \in 1..Len(notes) :
       GetTime(NewDate(notes[i].updatedAt)) >= GetTime(NewDate(notes[i].createdAt))
  /\ (cur.pc = "done" /\ cur.op \in CreateOps /\ cur.res = "ok") =>
       /\ notes[1] = NoteToJSON(cur.note[1])
       /\ notes[1].createdAt = notes[1].updatedAt

\* a note has just been created next to a note updated after its creation
C25_Witness ==
  /\ cur.pc = "done"
  /\ cur.op \in CreateOps
  /\ cur.res = "ok"
  /\ Len(notes) = 2
  /\ notes[1].createdAt = notes[1].updatedAt
  /\ GetTime(NewDate(notes[2].updatedAt)) > GetTime(NewDate(notes[2].createdAt))

\* the value updateNote stores for field f when its input supplies it
Supplied(input, f) ==
  IF f \in OptionalFields THEN Some(input[f]) ELSE input[f]

\* C26: after a successful updateNote(input), called as such or by
\* deleteNote, restoreNote, togglePinNote or toggleFavoriteNote, the stored
\* collection has the notes it had, in the order they had, all of them
\* unchanged but the first one with the id of the input; on that note the
\* fields the input supplies have the values supplied, updatedAt is the
\* time of the update, and every other field, id and createdAt among them,
\* is unchanged
C26_UpdateFrame ==
  (cur.pc = "done" /\ cur.op \in UpdateOps /\ cur.res = "ok") =>
    LET before == ProcessedNotes(cur.pre)
        after == ProcessedNotes(notes)
        i == FindIndex(before, cur.input.id)
    IN /\ i # 0
       /\ Len(after) = Len(before)
       /\ \A j \in 1..Len(before) : j # i => notes[j] = cur.pre[j]
       /\ DOMAIN after[i] = DOMAIN before[i]
       /\ after[i].id = before[i].id
       /\ after[i].createdAt = before[i].createdAt
       /\ \A f \in DOMAIN before[i] \ {"updatedAt"} :
            after[i][f] = IF Has(cur.input, f) THEN Supplied(cur.input, f)
                          ELSE before[i][f]

\* an updateNote has changed the content of the second of two stored notes
C26_Witness ==
  /\ Returned("updateNote")
  /\ cur.res = "ok"
  /\ Len(cur.pre) = 2
  /\ FindIndex(ProcessedNotes(cur.pre), cur.input.id) = 2
  /\ notes[2].content # cur.pre[2].content
  /\ notes[2].updatedAt # cur.pre[2].updatedAt
  /\ notes[1] = cur.pre[1]

\* the index createBackup's cleanup finds: the entry of the new backup
\* before the entries stored when createBackup was called
IndexAtCleanup == <<cur.meta[1]>> \o cur.snap[1][5]

\* createBackup has returned after a cleanup that found more than
\* MAX_BACKUP_FILES entries, no two of them with the same id
Evicting ==
  /\ Returned("createBackup")
  /\ cur.res = "ok"
  /\ Len(IndexAtCleanup) > MAX_BACKUP_FILES
  /\ \A i, j \in 1..Len(IndexAtCleanup) :
       IndexAtCleanup[i].id = IndexAtCleanup[j].id => i = j

\* the time of index entry b
TimeOf(b) == GetTime(NewDate(b.timestamp))

\* C27: when createBackup's cleanup finds more than MAX_BACKUP_FILES
\* entries in the index (each with an id of its own), the index holds
\* MAX_BACKUP_FILES of them afterwards, none of them older than an entry
\* that was evicted, and every evicted entry has neither a record nor an
\* index entry left
C27_OldestEvicted ==
  Evicting =>
    LET found == Range(IndexAtCleanup)
        left == Range(backupList)
    IN /\ Len(backupList) = MAX_BACKUP_FILES
       /\ Cardinality(left) = MAX_BACKUP_FILES
       /\ left \subseteq found
       /\ \A e \in found \ left :
            /\ \A k \in left : TimeOf(e) <= TimeOf(k)
            /\ ~HasBackup(e.id)
            /\ \A k \in left : k.id # e.id

\* the cleanup has evicted the one entry older than the two it left
C27_Witness ==
  /\ Evicting
  /\ \E e \in Range(IndexAtCleanup) \ Range(backupList) :
       \A k \in Range(backupList) : TimeOf(e) < TimeOf(k)

\* C28: when restoreBackup returns an error (no such record, or a storage
\* call of it having failed), the stored notes and the stored settings are
\* those stored when it was called
C28_RestoreAtomic ==
  (Returned("restoreBackup") /\ cur.res # "ok") =>
    /\ notes = cur.pre
    /\ settings = cur.snap[1][3]

\* the term occurs in the title, the content, the category or a tag of
\* note n, letter case apart
MatchesSomewhere(n, term) ==
  \/ ContainsNoCase(n.title, term)
  \/ ContainsNoCase(n.content, term)
  \/ n.category # None /\ ContainsNoCase(n.category[1], term)
  \/ \E g \in Range(n.tags) : ContainsNoCase(g, term)

\* C29: for a search term that is not blank, every note searchNotes
\* returns contains the term, letter case apart, in its title, its content,
\* its category or one of its tags
C29_OnlyMatches ==
  (Searched /\ ~Blank(cur.input.searchTerm)) =>
    \A i \in 1..Len(cur.out) :
      MatchesSomewhere(cur.out[i].item, cur.input.searchTerm)

\* a step changes the category, the tags or the sort option of the provider
SettingChanged ==
  <<state.selectedCategory, state.selectedTags, state.sortBy, state.sortOrder>>'
    # <<state.selectedCategory, state.selectedTags, state.sortBy, state.sortOrder>>

\* a step changes the notes of the provider
NotesChanged == state.notes' # state.notes

\* C30: every step of the provider that changes the category filter, the
\* tag filter or the sort option (filterByCategory, filterByTags,
\* setSortOption) or the notes (createNote, updateNote, deleteNote,
\* togglePinNote) leaves filteredNotes equal to the notes of the new state
\* filtered and sorted by the search query, category, tags and sort option
\* of the new state
C30_ViewConsistent ==
  [][(SettingChanged \/ NotesChanged) =>
       state.filteredNotes' = computeFilteredNotes(state', state.notes')]_vars
====
